---- MODULE Spec2Model ----
(***************************************************************************)
(* Model of gvallee/go_software_build: the stack orchestrator              *)
(* (Config.InstallStack, Config.UpdateRefs), the builder (Builder.Install) *)
(* and the build environment (Info.Get, Info.Unpack, Info.RunMake).        *)
(*                                                                         *)
(* Strings are sequences of one-character strings, so that the code's      *)
(* index arithmetic (strings.Index, slicing, strings.Split) is modelled    *)
(* character by character.  The file system is a function from paths to    *)
(* entries.                                                                *)
(*                                                                         *)
(* The configuration is taken as already loaded (Config.Loaded is true, so *)
(* InstallStack does not parse the two JSON files).  The packages the      *)
(* program imports from other repositories (go_util, go_exec) and the      *)
(* tools it runs (cp, tar, git, wget, make, configure) are modelled by     *)
(* what they do to the file system; whether a command succeeds is chosen   *)
(* by the environment.  The manifest files go_exec writes are left out.    *)
(***************************************************************************)
EXTENDS Integers, Sequences, FiniteSets, TLC

(***************************************************************************)
(* Go's strings and path packages                                          *)
(***************************************************************************)

\* s[i:j] of Go, 0-based, j exclusive
Slice(s, i, j) == SubSeq(s, i + 1, j)

\* s[i:] of Go
SliceFrom(s, i) == SubSeq(s, i + 1, Len(s))

\* strings.HasPrefix
HasPrefix(s, p) == Len(p) <= Len(s) /\ SubSeq(s, 1, Len(p)) = p

\* strings.HasSuffix
HasSuffix(s, p) == Len(p) <= Len(s) /\ SubSeq(s, Len(s) - Len(p) + 1, Len(s)) = p

\* strings.Index: the 0-based index of the first occurrence of sub, or -1
Index(s, sub) ==
    LET hits == {i \in 0..(Len(s) - Len(sub)) : Slice(s, i, i + Len(sub)) = sub}
    IN  IF hits = {} THEN -1
        ELSE CHOOSE i \in hits : \A j \in hits : i <= j

\* strings.Contains
Contains(s, sub) == Index(s, sub) # -1

\* strings.LastIndex for a one-character separator, or -1
LastIndex(s, sep) ==
    LET hits == {i \in 0..(Len(s) - Len(sep)) : Slice(s, i, i + Len(sep)) = sep}
    IN  IF hits = {} THEN -1
        ELSE CHOOSE i \in hits : \A j \in hits : i >= j

\* strings.Split(s, sep): the pieces of s between the occurrences of sep
RECURSIVE Split(_, _)
Split(s, sep) ==
    LET i == Index(s, sep)
    IN  IF i = -1 THEN <<s>>
        ELSE <<Slice(s, 0, i)>> \o Split(SliceFrom(s, i + Len(sep)), sep)

\* strings.Replace(s, old, new, 1): the first occurrence only
ReplaceFirst(s, old, new) ==
    LET i == Index(s, old)
    IN  IF i = -1 THEN s
        ELSE Slice(s, 0, i) \o new \o SliceFrom(s, i + Len(old))

\* filepath.Join of two elements: empty elements are ignored
Join(a, b) ==
    IF a = <<>> THEN b
    ELSE IF b = <<>> THEN a
    ELSE a \o <<"/">> \o b

\* filepath.Base / path.Base: the last element of the path
Base(p) ==
    LET i == LastIndex(p, <<"/">>)
    IN  IF i = -1 THEN p ELSE SliceFrom(p, i + 1)

\* filepath.Dir: everything before the last separator
Dir(p) ==
    LET i == LastIndex(p, <<"/">>)
    IN  IF i = -1 THEN <<".">> ELSE IF i = 0 THEN <<"/">> ELSE Slice(p, 0, i)

(***************************************************************************)
(* String constants of the program                                         *)
(***************************************************************************)

RefStartDelimiter == <<"@", "r", "e", "f", ":">>
RefEndDelimiter == <<"@">>

KInstallDir == <<"i", "n", "s", "t", "a", "l", "l", "_", "d", "i", "r">>
KBuildDir == <<"b", "u", "i", "l", "d", "_", "d", "i", "r">>
KSrcDir == <<"s", "r", "c", "_", "d", "i", "r">>

DScratch == <<"s", "c", "r", "a", "t", "c", "h">>
DInstall == <<"i", "n", "s", "t", "a", "l", "l">>
DBuild == <<"b", "u", "i", "l", "d">>
DSrc == <<"s", "r", "c">>
DBin == <<"b", "i", "n">>

\* reading a Go map: the zero value (the empty string) for a missing key
MapGet(m, k) == IF k \in DOMAIN m THEN m[k] ELSE <<>>

\* faulty variants of a map write, which the properties below must reject:
\* one that writes nothing, one that forgets every other key
MapSetNothing(m, k, v) == m

MapSetAlone(m, k, v) == [x \in {k} |-> v]

\* writing a Go map
MapSet(m, k, v) == [x \in (DOMAIN m) \cup {k} |-> IF x = k THEN v ELSE m[x]]

EmptyMap == [x \in {} |-> <<>>]

NoErr == ""

(***************************************************************************)
(* State                                                                   *)
(***************************************************************************)

VARIABLES
    Private,              \* Config.Data.Private
    BuildEnv,             \* Config.Data.BuildEnv
    StackDefinition,      \* Config.Data.StackDefinition: Name, Type, Components
    StackInstallDir,      \* Config.Data.StackConfig.InstallDir
    InstalledComponents,  \* Config.InstalledComponents: name -> install directory
    BuiltComponents,      \* Config.BuiltComponents: name -> build directory
    SrcComponents,        \* Config.SrcComponents: name -> source directory
    fs,                   \* the file system: path -> entry
    pc,                   \* where the program is
    run,                  \* how many calls were started
    idx,                  \* InstallStack: position of the current component
    installedComponents,  \* InstallStack's local map: name -> install directory
    configIds,            \* InstallStack's local map: name -> configure id
    b,                    \* the builder of the current component (Env and App)
    err,                  \* the error the call returned ("" for nil)
    log,                  \* what ran during the current call
    faults,               \* how many external commands failed so far
    token,                \* the argument of the UpdateRefs call under observation
    refRes                \* what that call produced

vars == <<Private, BuildEnv, StackDefinition, StackInstallDir, InstalledComponents,
          BuiltComponents, SrcComponents, fs, pc, run, idx, installedComponents,
          configIds, b, err, log, faults, token, refRes>>

(***************************************************************************)
(* Config.UpdateRefs                                                       *)
(***************************************************************************)

\* the `if ref == ...` chain of the loop body: each test reads the value the
\* previous one may have assigned
ResolveRef(ref, compName) ==
    LET r1 == IF ref = KInstallDir THEN MapGet(InstalledComponents, compName) ELSE ref
        r2 == IF r1 = KBuildDir THEN MapGet(BuiltComponents, compName) ELSE r1
        r3 == IF r2 = KSrcDir THEN MapGet(SrcComponents, compName) ELSE r2
    IN  r3

\* token[:startIdx] + ref + token[endIdx+len(RefEndDelimiter):]
Splice(tok, startIdx, endIdx, ref) ==
    Slice(tok, 0, startIdx) \o ref \o SliceFrom(tok, endIdx + Len(RefEndDelimiter))

\* the component name of a reference body: strToUpdate[:nameDelimiter]
RefName(strToUpdate, nameDelimiter) == Slice(strToUpdate, 0, nameDelimiter)

\* the kind of a reference body: strToUpdate[nameDelimiter+1:]
RefKind(strToUpdate, nameDelimiter) == SliceFrom(strToUpdate, nameDelimiter + 1)

\* a faulty variant of UpdateRefs that accepts every token as it is
UpdateRefsLenient(tok) == [err |-> NoErr, panic |-> FALSE, out |-> tok]

\* The result of UpdateRefs(token): err is the returned error ("" for nil),
\* out the returned string; panic is TRUE when the call does not return
\* (a slice bound of -1 is a run-time panic in Go).
UpdateRefs(tok) ==
    LET startIdx == Index(tok, RefStartDelimiter)
    IN  IF startIdx = -1
        THEN [err |-> "unable to find start delimiter", panic |-> FALSE, out |-> <<>>]
        ELSE
          LET bodyStart == startIdx + Len(RefStartDelimiter)
              rel == Index(SliceFrom(tok, bodyStart), RefEndDelimiter)
          IN  IF rel = -1
              THEN [err |-> "unable to find end delimiter", panic |-> FALSE, out |-> <<>>]
              ELSE
                LET endIdx == rel + bodyStart
                    strToUpdate == Slice(tok, bodyStart, endIdx)
                    nameDelimiter == Index(strToUpdate, <<"_">>)
                IN  IF nameDelimiter = -1
                    THEN [err |-> NoErr, panic |-> TRUE, out |-> <<>>]
                    ELSE
                      LET softwareComponentName == RefName(strToUpdate, nameDelimiter)
                          ref == RefKind(strToUpdate, nameDelimiter)
                      IN  IF softwareComponentName \in DOMAIN InstalledComponents
                          THEN [err |-> NoErr, panic |-> FALSE,
                                out |-> Splice(tok, startIdx, endIdx,
                                               ResolveRef(ref, softwareComponentName))]
                          ELSE [err |-> NoErr, panic |-> FALSE, out |-> tok]

(***************************************************************************)
(* Characters: ASCII codes of the characters that occur in directory       *)
(* entries, for the name order of ioutil.ReadDir                           *)
(***************************************************************************)

AsciiOrder == <<"#", "%", ".", ":", "=", "@", "A", "B", "C", "D", "E", "F", "G", "H", "I", "J", "K", "L", "M", "N", "O", "P", "Q", "R", "S", "T", "U", "V", "W", "X", "Y", "Z", "_", "a", "b", "c", "d", "e", "f", "g", "h", "i", "j", "k", "l", "m", "n", "o", "p", "q", "r", "s", "t", "u", "v", "w", "x", "y", "z">>

\* the rank of a character in ASCII order
Rank(ch) == CHOOSE i \in 1..Len(AsciiOrder) : AsciiOrder[i] = ch

\* s < t in the byte order of Go's string comparison
RECURSIVE StrLess(_, _)
StrLess(s, t) ==
    IF t = <<>> THEN FALSE
    ELSE IF s = <<>> THEN TRUE
    ELSE IF s[1] = t[1] THEN StrLess(Tail(s), Tail(t))
    ELSE Rank(s[1]) < Rank(t[1])

\* the first name of a non-empty set of names in that order
MinName(names) == CHOOSE x \in names : \A y \in names : x = y \/ StrLess(x, y)

(***************************************************************************)
(* The file system: a function from the paths that exist to their entry    *)
(***************************************************************************)

DirEntry == [dir |-> TRUE, content |-> <<>>]
FileEntry(content) == [dir |-> FALSE, content |-> content]

\* util.PathExists
PathExists(f, p) == p \in DOMAIN f

\* util.IsDir
IsDir(f, p) == p \in DOMAIN f /\ f[p].dir

\* util.FileExists
FileExists(f, p) == p \in DOMAIN f /\ ~f[p].dir

\* the ancestors of p, p included (the root excluded)
Ancestors(p) == {Slice(p, 0, i) : i \in {j \in 1..Len(p) : j = Len(p) \/ p[j + 1] = "/"}}

\* os.MkdirAll: p and its missing ancestors become directories
MkdirAll(f, p) ==
    LET new == {q \in Ancestors(p) : q \notin DOMAIN f}
    IN  [q \in (DOMAIN f) \cup new |-> IF q \in DOMAIN f THEN f[q] ELSE DirEntry]

\* writing one file
WriteFile(f, p, content) ==
    [q \in (DOMAIN f) \cup {p} |-> IF q = p THEN FileEntry(content) ELSE f[q]]

\* the names of the entries of directory p (ioutil.ReadDir)
EntryNames(f, p) == {Base(q) : q \in {r \in DOMAIN f : Len(r) > Len(p) /\ Dir(r) = p}}

\* the paths at or below p
Below(f, p) == {q \in DOMAIN f : q = p \/ HasPrefix(q, p \o <<"/">>)}

\* cp -rf src dst, dst an existing directory: the tree at src appears as
\* dst/<base of src>, existing entries overwritten
CopyTree(f, src, dst) ==
    LET target(q) == Join(dst, Base(src)) \o SliceFrom(q, Len(src))
        moved == {target(q) : q \in Below(f, src)}
        origin(t) == CHOOSE q \in Below(f, src) : target(q) = t
    IN  [t \in (DOMAIN f) \cup moved |-> IF t \in moved THEN f[origin(t)] ELSE f[t]]

\* the entries a set of (relative path, entry) pairs adds below directory p
AddTree(f, p, tree) ==
    LET new == {Join(p, e[1]) : e \in tree}
        entryOf(t) == (CHOOSE e \in tree : Join(p, e[1]) = t)[2]
    IN  [t \in (DOMAIN f) \cup new |-> IF t \in new THEN entryOf(t) ELSE f[t]]

(***************************************************************************)
(* The world outside the program: the process environment, the local       *)
(* sources, the content of archives and repositories, and what the build   *)
(* tools do with a Makefile                                                *)
(***************************************************************************)

OsPath == <<"/", "b">>
PathKey == <<"P", "A", "T", "H">>

FilePrefix == <<"f", "i", "l", "e", ":", "/", "/">>
HttpPrefix == <<"h", "t", "t", "p", ":", "/", "/">>
HttpsPrefix == <<"h", "t", "t", "p", "s", ":", "/", "/">>
GitSshPrefix == <<"g", "i", "t", "@">>
GitSuffix == <<".", "g", "i", "t">>

FAutogenSh == <<"a", "u", "t", "o", "g", "e", "n", ".", "s", "h">>
FAutogenPl == <<"a", "u", "t", "o", "g", "e", "n", ".", "p", "l">>
FConfigure == <<"c", "o", "n", "f", "i", "g", "u", "r", "e">>
FMakefileU == <<"M", "a", "k", "e", "f", "i", "l", "e">>
FMakefileL == <<"m", "a", "k", "e", "f", "i", "l", "e">>
FBuilddir == <<"b", "u", "i", "l", "d", "d", "i", "r">>
DObj == <<"o", "b", "j">>

\* Makefiles of the sources: every one has an install target; the marker
\* lines say what running it leaves behind (an obj/ directory where make
\* runs, a bin/ directory in the install prefix)
ObjMarker == <<"#", "o", "b", "j">>
BinMarker == <<"#", "b", "i", "n", "=">>
MkPlain == <<"a", "l", "l", ":", "\n", "i", "n", "s", "t", "a", "l", "l", ":">>
MkObj == <<"a", "l", "l", ":", "\n", "#", "o", "b", "j", "\n", "i", "n", "s", "t", "a", "l", "l", ":">>
ScriptText == <<"#", "!">>
ArchiveBytes == <<"%">>

\* source URLs
UDir == <<"f", "i", "l", "e", ":", "/", "/", "/", "w", "/", "d">>
UTar == <<"f", "i", "l", "e", ":", "/", "/", "/", "w", "/", "t", ".", "t", "g", "z">>
UTarTwo == <<"f", "i", "l", "e", ":", "/", "/", "/", "w", "/", "u", ".", "t", "g", "z">>
UMk == <<"f", "i", "l", "e", ":", "/", "/", "/", "w", "/", "M", "a", "k", "e", "f", "i", "l", "e">>
UHttp == <<"h", "t", "t", "p", ":", "/", "/", "h", "/", "t", ".", "t", "g", "z">>
UGit == <<"g", "i", "t", "@", "h", ":", "g", "/", "r", ".", "g", "i", "t">>
UGitAuto == <<"g", "i", "t", "@", "h", ":", "g", "/", "q", ".", "g", "i", "t">>
UBad == <<"f", "t", "p", ":", "/", "/", "h", "/", "x">>

\* the local sources that exist before anything runs
LocalFS ==
    LET paths == {<<"/", "w">>, <<"/", "w", "/", "d">>, <<"/", "w", "/", "d", "/", "c", "o", "n", "f", "i", "g", "u", "r", "e">>, <<"/", "w", "/", "t", ".", "t", "g", "z">>, <<"/", "w", "/", "u", ".", "t", "g", "z">>, <<"/", "w", "/", "M", "a", "k", "e", "f", "i", "l", "e">>}
    IN  [p \in paths |->
            IF p \in {<<"/", "w">>, <<"/", "w", "/", "d">>} THEN DirEntry
            ELSE IF p = <<"/", "w", "/", "d", "/", "c", "o", "n", "f", "i", "g", "u", "r", "e">> THEN FileEntry(ScriptText)
            ELSE IF p = <<"/", "w", "/", "M", "a", "k", "e", "f", "i", "l", "e">> THEN FileEntry(MkObj)
            ELSE FileEntry(ArchiveBytes)]

\* what `tar -x` of an archive creates in the directory it runs in
ArchiveTree(tarball) ==
    IF tarball = <<"t", ".", "t", "g", "z">>
    THEN {<<<<"t">>, DirEntry>>, <<<<"t", "/", "c", "o", "n", "f", "i", "g", "u", "r", "e">>, FileEntry(ScriptText)>>}
    ELSE IF tarball = <<"u", ".", "t", "g", "z">>
    THEN {<<<<"u", "1">>, DirEntry>>, <<<<"u", "2">>, DirEntry>>}
    ELSE {}

\* what `git clone <url>` creates in the directory it runs in
RepoTree(url) ==
    IF url = UGit
    THEN {<<<<"r">>, DirEntry>>, <<<<"r", "/", "M", "a", "k", "e", "f", "i", "l", "e">>, FileEntry(MkPlain)>>}
    ELSE IF url = UGitAuto
    THEN {<<<<"q">>, DirEntry>>, <<<<"q", "/", "a", "u", "t", "o", "g", "e", "n", ".", "s", "h">>, FileEntry(ScriptText)>>}
    ELSE {}

\* what a download of an http(s) URL writes
Downloaded(url) == ArchiveBytes

\* the binaries exec.LookPath finds
Binaries == {<<"c", "p">>, <<"t", "a", "r">>, <<"g", "i", "t">>, <<"w", "g", "e", "t">>, <<"m", "a", "k", "e">>, <<"p">>}

(***************************************************************************)
(* go_util: URL and archive classification                                 *)
(***************************************************************************)

\* util.DetectURLType
DetectURLType(url) ==
    IF HasPrefix(url, FilePrefix) THEN "file"
    ELSE IF HasSuffix(url, GitSuffix) \/ HasPrefix(url, GitSshPrefix) THEN "git"
    ELSE IF HasPrefix(url, HttpPrefix) \/ HasPrefix(url, HttpsPrefix) THEN "http"
    ELSE ""

\* util.DetectTarballFormat: by the extension of the file name
DetectTarballFormat(path) ==
    IF HasSuffix(path, <<".", "b", "z", "2">>) THEN "bz2"
    ELSE IF HasSuffix(path, <<".", "g", "z">>) THEN "gz"
    ELSE IF HasSuffix(path, <<".", "t", "g", "z">>) THEN "tgz"
    ELSE IF HasSuffix(path, <<".", "t", "a", "r">>) THEN "tar"
    ELSE ""

(***************************************************************************)
(* The builder: builder.Builder with its buildenv.Info (Env) and its       *)
(* app.Info (App, with the autotools.Config of the application)            *)
(***************************************************************************)

NewBuilder ==
    [ScratchDir |-> <<>>, InstallDir |-> <<>>, BuildDir |-> <<>>,
     SrcDir |-> <<>>, SrcPath |-> <<>>, Env |-> <<>>,
     Name |-> <<>>, URL |-> <<>>, Branch |-> <<>>, BranchCheckoutPrelude |-> <<>>,
     Tarball |-> <<>>,
     DetectDone |-> FALSE, HasAutogen |-> FALSE, HasConfigure |-> FALSE,
     HasMakeInstall |-> FALSE, Source |-> <<>>,
     ExtraConfigureArgs |-> <<>>, ConfigurePreludeCmd |-> <<>>,
     MakeExtraArgs |-> <<>>, BuildScript |-> <<>>, SudoRequired |-> FALSE,
     Persistent |-> <<>>]

\* One entry of the record of what ran: a step that started (bin empty) or
\* an external command or file copy (bin, args, env, dir: the command line,
\* the environment handed to the process and its working directory)
StepEvent(comp, step) ==
    [comp |-> comp, step |-> step, bin |-> <<>>, args |-> <<>>, env |-> <<>>,
     dir |-> <<>>, ok |-> TRUE]

CmdEvent(comp, step, bin, args, env, dir, ok) ==
    [comp |-> comp, step |-> step, bin |-> bin, args |-> args, env |-> env,
     dir |-> dir, ok |-> ok]

\* A machine state m is [b, fs, log, err]: the builder, the file system, the
\* record of what ran and the error of the operation ("" for nil).  Every
\* operation below maps m to the state it leaves; ok says whether the one
\* external command (or file copy) it runs succeeds when it can.
Failed(m, e) == [m EXCEPT !.err = e]

Logged(m, ev) == [m EXCEPT !.log = Append(m.log, ev)]

\* a faulty variant of copyTarball that copies the file again when the
\* target is already there
copyTarballAgain(m, ok) ==
    LET b0 == m.b
        tarball == IF b0.Tarball = <<>> THEN Base(b0.URL) ELSE b0.Tarball
        targetDir == Join(b0.BuildDir, b0.Name)
        targetTarballPath == Join(targetDir, tarball)
        src == SliceFrom(b0.URL, Len(FilePrefix))
        f1 == IF PathExists(m.fs, targetDir) THEN m.fs ELSE MkdirAll(m.fs, targetDir)
        ev == CmdEvent(b0.Name, "get", <<"c", "o", "p", "y", "f", "i", "l", "e">>,
                       <<src, targetTarballPath>>, <<>>, <<>>, ok)
    IN  IF FileExists(f1, src) /\ ok
        THEN [m EXCEPT !.b = [b0 EXCEPT !.Tarball = tarball, !.SrcDir = targetDir,
                                        !.SrcPath = targetTarballPath],
                       !.fs = WriteFile(f1, targetTarballPath, f1[src].content),
                       !.log = Append(m.log, ev)]
        ELSE [m EXCEPT !.fs = f1, !.log = Append(m.log, ev),
                       !.err = "impossible to copy the tarball"]

\* Info.copyTarball
copyTarball(m, ok) ==
    LET b0 == m.b
        tarball == IF b0.Tarball = <<>> THEN Base(b0.URL) ELSE b0.Tarball
        targetDir == Join(b0.BuildDir, b0.Name)
        f1 == IF PathExists(m.fs, targetDir) THEN m.fs ELSE MkdirAll(m.fs, targetDir)
        targetTarballPath == Join(targetDir, tarball)
        src == SliceFrom(b0.URL, Len(FilePrefix))
        b1 == [b0 EXCEPT !.Tarball = tarball]
        done == [b1 EXCEPT !.SrcDir = targetDir, !.SrcPath = targetTarballPath]
        ev(r) == CmdEvent(b0.Name, "get", <<"c", "o", "p", "y", "f", "i", "l", "e">>, <<src, targetTarballPath>>, <<>>, <<>>, r)
    IN  IF b0.URL = <<>> THEN Failed(m, "invalid copyTarball() parameter(s)")
        ELSE IF FileExists(f1, targetTarballPath)
        THEN [m EXCEPT !.b = done, !.fs = f1]
        ELSE IF FileExists(f1, src) /\ ok
        THEN [m EXCEPT !.b = done,
                       !.fs = WriteFile(f1, targetTarballPath, f1[src].content),
                       !.log = Append(m.log, ev(TRUE))]
        ELSE [m EXCEPT !.b = b1, !.fs = f1, !.log = Append(m.log, ev(FALSE)),
                       !.err = "impossible to copy the tarball"]

\* the directory case of Info.Get: cp -rf <path> <BuildDir>/<Name>
copyDirectory(m, ok) ==
    LET b0 == m.b
        path == SliceFrom(b0.URL, Len(FilePrefix))
        targetDir == Join(b0.BuildDir, b0.Name)
        f1 == IF PathExists(m.fs, targetDir) THEN m.fs ELSE MkdirAll(m.fs, targetDir)
        srcPath == Join(targetDir, Base(b0.URL))
        ev(r) == CmdEvent(b0.Name, "get", <<"c", "p">>, <<<<"-", "r", "f">>, path, targetDir>>, <<>>, <<>>, r)
    IN  IF <<"c", "p">> \notin Binaries
        THEN [m EXCEPT !.fs = f1, !.err = "cp command not available"]
        ELSE IF ok
        THEN [m EXCEPT !.b = [b0 EXCEPT !.SrcPath = srcPath, !.SrcDir = srcPath],
                       !.fs = CopyTree(f1, path, targetDir),
                       !.log = Append(m.log, ev(TRUE))]
        ELSE [m EXCEPT !.fs = f1, !.log = Append(m.log, ev(FALSE)),
                       !.err = "unable to copy"]

\* Info.download
download(m, ok) ==
    LET b0 == m.b
        f1 == IF PathExists(m.fs, b0.SrcPath) THEN m.fs
              ELSE [q \in (DOMAIN m.fs) \cup {b0.SrcPath} |->
                        IF q = b0.SrcPath THEN DirEntry ELSE m.fs[q]]
        tarball == IF b0.Tarball = <<>> THEN Base(b0.URL) ELSE b0.Tarball
        b1 == [b0 EXCEPT !.Tarball = tarball]
        targetFile == Join(b0.SrcPath, tarball)
        ev(r) == CmdEvent(b0.Name, "get", <<"w", "g", "e", "t">>, <<b0.URL>>, <<>>, b0.SrcPath, r)
    IN  IF b0.URL = <<>> THEN Failed(m, "URL is undefined")
        ELSE IF b0.SrcPath = <<>> THEN Failed(m, "SrcPath is undefined")
        ELSE IF ~PathExists(m.fs, b0.SrcPath) /\ ~PathExists(m.fs, Dir(b0.SrcPath))
        THEN Failed(m, "mkdir failed")
        ELSE IF FileExists(f1, targetFile)
        THEN [m EXCEPT !.b = b1, !.fs = f1]
        ELSE IF <<"w", "g", "e", "t">> \notin Binaries
        THEN [m EXCEPT !.b = b1, !.fs = f1, !.err = "cannot find wget"]
        ELSE IF ok
        THEN [m EXCEPT !.b = b1, !.fs = WriteFile(f1, targetFile, Downloaded(b0.URL)),
                       !.log = Append(m.log, ev(TRUE))]
        ELSE [m EXCEPT !.b = b1, !.fs = f1, !.log = Append(m.log, ev(FALSE)),
                       !.err = "command failed"]

\* Info.gitCheckout
gitCheckout(m, ok) ==
    LET b0 == m.b
        repoName == ReplaceFirst(Base(b0.URL), GitSuffix, <<>>)
        targetDir == Join(b0.BuildDir, b0.Name)
        f1 == IF PathExists(m.fs, targetDir) THEN m.fs ELSE MkdirAll(m.fs, targetDir)
        checkoutPath == Join(targetDir, repoName)
        done == [b0 EXCEPT !.SrcPath = checkoutPath, !.SrcDir = checkoutPath]
        pull(r) == CmdEvent(b0.Name, "get", <<"g", "i", "t">>, <<<<"p", "u", "l", "l">>>>, <<>>, checkoutPath, r)
        clone(r) == CmdEvent(b0.Name, "get", <<"g", "i", "t">>, <<<<"c", "l", "o", "n", "e">>, b0.URL>>, <<>>, targetDir, r)
    IN  IF <<"g", "i", "t">> \notin Binaries THEN Failed(m, "failed to find git")
        ELSE IF PathExists(f1, checkoutPath)
        THEN IF ok
             THEN [m EXCEPT !.b = done, !.fs = f1, !.log = Append(m.log, pull(TRUE))]
             ELSE [m EXCEPT !.fs = f1, !.log = Append(m.log, pull(FALSE)),
                            !.err = "command failed"]
        ELSE IF ok
             THEN [m EXCEPT !.b = done, !.fs = AddTree(f1, targetDir, RepoTree(b0.URL)),
                            !.log = Append(m.log, clone(TRUE))]
             ELSE [m EXCEPT !.fs = f1, !.log = Append(m.log, clone(FALSE)),
                            !.err = "command failed"]

\* Info.Get
Get(m, ok) ==
    LET b0 == m.b
        urlFormat == DetectURLType(b0.URL)
    IN  IF b0.URL = <<>> THEN Failed(m, "invalid Get() parameter(s)")
        ELSE IF urlFormat = "" THEN Failed(m, "impossible to detect type from URL")
        ELSE IF urlFormat = "file"
        THEN IF ~IsDir(m.fs, SliceFrom(b0.URL, Len(FilePrefix)))
             THEN copyTarball(m, ok)
             ELSE copyDirectory(m, ok)
        ELSE IF urlFormat = "http"
        THEN LET d == download(m, ok)
             IN  IF d.err # NoErr THEN d
                 ELSE [d EXCEPT !.b = [d.b EXCEPT !.SrcDir = d.b.SrcPath]]
        ELSE gitCheckout([m EXCEPT !.b = [b0 EXCEPT !.SrcPath = b0.BuildDir]], ok)

\* util.GetTarArgs
GetTarArgs(format) ==
    IF format = "bz2" THEN <<"-", "x", "j", "f">>
    ELSE IF format \in {"gz", "tgz"} THEN <<"-", "x", "z", "f">>
    ELSE IF format = "tar" THEN <<"-", "x", "f">>
    ELSE <<>>

\* a faulty variant of Unpack that accepts a directory with several
\* entries besides the archive and leaves SrcDir alone
UnpackLenient(m, ok) ==
    LET b0 == m.b
        srcObject == Join(b0.SrcDir, b0.Tarball)
        format == DetectTarballFormat(srcObject)
        tarArg == GetTarArgs(format)
        ev(r) == CmdEvent(b0.Name, "unpack", <<"t", "a", "r">>, <<tarArg, srcObject>>, <<>>, b0.SrcDir, r)
        f1 == AddTree(m.fs, b0.SrcDir, ArchiveTree(Base(srcObject)))
        entries == EntryNames(f1, b0.SrcDir)
        others == {e \in entries : e # Base(b0.Tarball)}
    IN  IF b0.SrcPath = <<>> \/ b0.BuildDir = <<>> THEN Failed(m, "invalid parameter(s)")
        ELSE IF format = "" THEN m
        ELSE IF <<"t", "a", "r">> \notin Binaries THEN Failed(m, "tar is not available")
        ELSE IF tarArg = <<>> THEN Failed(m, "unsupported format")
        ELSE IF ~(ok /\ FileExists(m.fs, srcObject))
        THEN [m EXCEPT !.log = Append(m.log, ev(FALSE)), !.err = "command failed"]
        ELSE IF Cardinality(entries) > 2
        THEN [m EXCEPT !.fs = f1, !.log = Append(m.log, ev(TRUE))]
        ELSE [m EXCEPT !.fs = f1, !.log = Append(m.log, ev(TRUE)),
                       !.b = [b0 EXCEPT !.SrcDir =
                                 IF others = {} THEN b0.SrcDir
                                 ELSE Join(b0.SrcDir, MinName(others))]]

\* Info.Unpack
Unpack(m, ok) ==
    LET b0 == m.b
        srcObject == Join(b0.SrcDir, b0.Tarball)
        format == DetectTarballFormat(srcObject)
        tarArg == GetTarArgs(format)
        ev(r) == CmdEvent(b0.Name, "unpack", <<"t", "a", "r">>, <<tarArg, srcObject>>, <<>>, b0.SrcDir, r)
        f1 == AddTree(m.fs, b0.SrcDir, ArchiveTree(Base(srcObject)))
        entries == EntryNames(f1, b0.SrcDir)
        others == {e \in entries : e # Base(b0.Tarball)}
    IN  IF b0.SrcPath = <<>> \/ b0.BuildDir = <<>> THEN Failed(m, "invalid parameter(s)")
        ELSE IF format = "" THEN m
        ELSE IF <<"t", "a", "r">> \notin Binaries THEN Failed(m, "tar is not available")
        ELSE IF tarArg = <<>> THEN Failed(m, "unsupported format")
        ELSE IF ~(ok /\ FileExists(m.fs, srcObject))
        THEN [m EXCEPT !.log = Append(m.log, ev(FALSE)), !.err = "command failed"]
        ELSE IF Cardinality(entries) > 2
        THEN [m EXCEPT !.fs = f1, !.log = Append(m.log, ev(TRUE)),
                       !.err = "inconsistent temporary directory"]
        ELSE [m EXCEPT !.fs = f1, !.log = Append(m.log, ev(TRUE)),
                       !.b = [b0 EXCEPT !.SrcDir =
                                 IF others = {} THEN b0.SrcDir
                                 ELSE Join(b0.SrcDir, MinName(others))]]

(***************************************************************************)
(* autotools.Config                                                        *)
(***************************************************************************)

\* Config.MakefileHasTarget
MakefileHasTarget(f, target, path) ==
    /\ FileExists(f, path)
    /\ LET lines == Split(f[path].content, <<"\n">>)
       IN  \E i \in 1..Len(lines) : HasPrefix(lines[i], target \o <<":">>)

\* a faulty variant of Detect that inspects the tree on every call
DetectAgain(c, f) ==
    IF FileExists(f, Join(c.Source, FAutogenSh)) \/ FileExists(f, Join(c.Source, FAutogenPl))
    THEN [c EXCEPT !.DetectDone = TRUE, !.HasAutogen = TRUE, !.HasConfigure = TRUE,
                   !.HasMakeInstall = TRUE]
    ELSE IF FileExists(f, Join(c.Source, FConfigure))
    THEN [c EXCEPT !.DetectDone = TRUE, !.HasConfigure = TRUE, !.HasMakeInstall = TRUE]
    ELSE IF FileExists(f, Join(c.Source, FMakefileU))
    THEN [c EXCEPT !.DetectDone = TRUE,
                   !.HasMakeInstall = MakefileHasTarget(f, <<"i", "n", "s", "t", "a", "l", "l">>, Join(c.Source, FMakefileU))]
    ELSE [c EXCEPT !.DetectDone = FALSE]

\* Config.Detect, on any record c that has the fields of autotools.Config
Detect(c, f) ==
    IF c.DetectDone THEN c
    ELSE IF FileExists(f, Join(c.Source, FAutogenSh)) \/ FileExists(f, Join(c.Source, FAutogenPl))
    THEN [c EXCEPT !.DetectDone = TRUE, !.HasAutogen = TRUE, !.HasConfigure = TRUE,
                   !.HasMakeInstall = TRUE]
    ELSE IF FileExists(f, Join(c.Source, FConfigure))
    THEN [c EXCEPT !.DetectDone = TRUE, !.HasConfigure = TRUE, !.HasMakeInstall = TRUE]
    ELSE IF FileExists(f, Join(c.Source, FMakefileU))
    THEN [c EXCEPT !.DetectDone = TRUE,
                   !.HasMakeInstall = MakefileHasTarget(f, <<"i", "n", "s", "t", "a", "l", "l">>, Join(c.Source, FMakefileU))]
    ELSE [c EXCEPT !.DetectDone = FALSE]

\* the Makefile a successful ./configure --prefix <prefix> writes: its
\* install target installs executables into <prefix>/bin
GeneratedMakefile(prefix) == <<"a", "l", "l", ":", "\n", "#", "b", "i", "n", "=">> \o prefix \o <<"\n", "i", "n", "s", "t", "a", "l", "l", ":">>

\* the autotools.Config that GenericConfigure builds for one call
NewAutotoolsCfg(b0, appName, extraArgs, configurePreludeCmd) ==
    [DetectDone |-> FALSE, HasAutogen |-> FALSE, HasConfigure |-> FALSE,
     HasMakeInstall |-> FALSE,
     Install |-> Join(b0.InstallDir, appName), Source |-> b0.SrcDir,
     ConfigureEnv |-> b0.Env, ExtraConfigureArgs |-> extraArgs,
     ConfigurePreludeCmd |-> configurePreludeCmd]

\* autogen(cfg): m after the autogen step of cfg
autogen(m, cfg, comp, ok) ==
    LET bin == IF FileExists(m.fs, Join(cfg.Source, FAutogenSh))
               THEN <<".", "/", "a", "u", "t", "o", "g", "e", "n", ".", "s", "h">> ELSE <<".", "/", "a", "u", "t", "o", "g", "e", "n", ".", "p", "l">>
        ev(r) == CmdEvent(comp, "autogen", bin, <<>>, cfg.ConfigureEnv, cfg.Source, r)
    IN  IF ~cfg.HasAutogen THEN m
        ELSE IF cfg.HasConfigure THEN m
        ELSE IF ok /\ FileExists(m.fs, Join(cfg.Source, SliceFrom(bin, 2)))
        THEN [m EXCEPT !.fs = WriteFile(m.fs, Join(cfg.Source, FConfigure), ScriptText),
                       !.log = Append(m.log, ev(TRUE))]
        ELSE [m EXCEPT !.log = Append(m.log, ev(FALSE)), !.err = "unable to run autogen"]

\* the configure prelude of Config.Configure
configurePrelude(m, cfg, comp, ok) ==
    LET tokens == Split(cfg.ConfigurePreludeCmd, <<" ">>)
        ev(r) == CmdEvent(comp, "prelude", tokens[1], Tail(tokens), <<>>, cfg.Source, r)
    IN  IF cfg.ConfigurePreludeCmd = <<>> THEN m
        ELSE IF tokens[1] \notin Binaries THEN Failed(m, "unable to run prelude, cannot find")
        ELSE IF ok THEN Logged(m, ev(TRUE))
        ELSE [m EXCEPT !.log = Append(m.log, ev(FALSE)),
                       !.err = "unable to execute configure prelude"]

\* the ./configure invocation of Config.Configure
runConfigure(m, cfg, comp, ok) ==
    LET cmdArgs == (IF cfg.Install # <<>> THEN <<<<"-", "-", "p", "r", "e", "f", "i", "x">>, cfg.Install>> ELSE <<>>)
                   \o cfg.ExtraConfigureArgs
        ev(r) == CmdEvent(comp, "configure", <<".", "/", "c", "o", "n", "f", "i", "g", "u", "r", "e">>, cmdArgs, cfg.ConfigureEnv,
                          cfg.Source, r)
    IN  IF ok /\ FileExists(m.fs, Join(cfg.Source, FConfigure))
        THEN [m EXCEPT !.fs = WriteFile(m.fs, Join(cfg.Source, FMakefileU),
                                        GeneratedMakefile(cfg.Install)),
                       !.log = Append(m.log, ev(TRUE))]
        ELSE [m EXCEPT !.log = Append(m.log, ev(FALSE)), !.err = "command failed"]

\* Config.Configure on the configuration cfg0; okPrelude and ok are the
\* outcomes of the prelude command and of autogen/configure
Configure(m, cfg0, comp, okPrelude, ok) ==
    LET cfg == Detect(cfg0, m.fs)
        m1 == configurePrelude(m, cfg, comp, okPrelude)
        m2 == IF m1.err # NoErr THEN m1 ELSE autogen(m1, cfg, comp, ok)
    IN  IF m2.err # NoErr THEN m2
        ELSE IF ~cfg.HasConfigure THEN m2
        ELSE runConfigure(m2, cfg, comp, ok)

\* builder.GenericConfigure
GenericConfigure(m, appName, extraArgs, configurePreludeCmd, okPrelude, ok) ==
    LET r == Configure(m, NewAutotoolsCfg(m.b, appName, extraArgs, configurePreludeCmd),
                       appName, okPrelude, ok)
    IN  IF r.err # NoErr THEN Failed(r, "failed to configure software") ELSE r

\* findMakefile: [path, args, err]
findMakefile(b0, f) ==
    LET upper == Join(b0.SrcDir, FMakefileU)
        lower == Join(b0.SrcDir, FMakefileL)
        inBuilddir == Join(Join(b0.SrcDir, FBuilddir), FMakefileU)
        found(p, a) == [path |-> p, args |-> a, err |-> NoErr]
    IN  IF FileExists(f, upper) THEN found(upper, <<>>)
        ELSE IF FileExists(f, inBuilddir) THEN found(inBuilddir, <<<<"-", "C">>, FBuilddir>>)
        ELSE IF FileExists(f, lower) THEN found(lower, <<>>)
        ELSE [path |-> <<>>, args |-> <<>>, err |-> "unable to locate the Makefile"]

\* the directory make works in: its working directory, then each -C argument
RECURSIVE MakeWorkDir(_, _)
MakeWorkDir(dir, args) ==
    IF Len(args) < 2 THEN dir
    ELSE IF args[1] = <<"-", "C">> THEN MakeWorkDir(Join(dir, args[2]), SliceFrom(args, 2))
    ELSE MakeWorkDir(dir, Tail(args))

\* the Makefile make reads in directory d ("" when there is none)
MakefileIn(f, d) ==
    IF FileExists(f, Join(d, FMakefileL)) THEN Join(d, FMakefileL)
    ELSE IF FileExists(f, Join(d, FMakefileU)) THEN Join(d, FMakefileU)
    ELSE <<>>

\* what a successful make of the given stage leaves on the file system
MakeEffect(f, workDir, stage) ==
    LET lines == Split(f[MakefileIn(f, workDir)].content, <<"\n">>)
        binLines == {i \in 1..Len(lines) : HasPrefix(lines[i], BinMarker)}
        prefix == SliceFrom(lines[CHOOSE i \in binLines : TRUE], Len(BinMarker))
    IN  IF stage = <<>>
        THEN IF \E i \in 1..Len(lines) : lines[i] = ObjMarker
             THEN MkdirAll(f, Join(workDir, DObj)) ELSE f
        ELSE IF binLines # {} THEN MkdirAll(f, Join(prefix, DBin)) ELSE f

\* Info.RunMake
RunMake(m, sudo, stage, makefilePath, args, ok) ==
    LET b0 == m.b
        args1 == IF stage # <<>> THEN Append(args, stage) ELSE args
        args2 == <<<<"-", "j">>>> \o args1
        makeArgs == args2 \o b0.MakeExtraArgs
        bin == IF sudo THEN <<"s", "u", "d", "o">> ELSE <<"m", "a", "k", "e">>
        cmdArgs == IF sudo THEN <<<<"m", "a", "k", "e">>>> \o makeArgs ELSE makeArgs
        execDir == Dir(makefilePath)
        workDir == MakeWorkDir(execDir, makeArgs)
        mk == MakefileIn(m.fs, workDir)
        step == IF stage = <<>> THEN "compile" ELSE "install"
        ev(r) == CmdEvent(b0.Name, step, bin, cmdArgs, b0.Env, execDir, r)
        runs == /\ ok
                /\ IsDir(m.fs, execDir)
                /\ bin \in Binaries
                /\ mk # <<>>
                /\ stage # <<>> => MakefileHasTarget(m.fs, stage, mk)
    IN  IF b0.SrcDir = <<>> THEN Failed(m, "invalid parameter(s)")
        ELSE IF sudo /\ bin \notin Binaries THEN Failed(m, "failed to find the sudo binary")
        ELSE IF runs
        THEN [m EXCEPT !.fs = MakeEffect(m.fs, workDir, stage),
                       !.log = Append(m.log, ev(TRUE))]
        ELSE [m EXCEPT !.log = Append(m.log, ev(FALSE)), !.err = "command failed"]

\* a faulty variant of compile that ignores the build script and goes on
\* without Makefile
compileLenient(m, ok) ==
    LET b1 == Detect(m.b, m.fs)
        mf == findMakefile(b1, m.fs)
    IN  IF mf.err # NoErr THEN [m EXCEPT !.b = b1]
        ELSE RunMake([m EXCEPT !.b = b1], FALSE, <<>>, mf.path, mf.args, ok)

\* Builder.compile
compile(m, ok) ==
    LET b0 == m.b
        destFile == Join(b0.SrcDir, Base(b0.BuildScript))
        copied == FileExists(m.fs, destFile) \/ FileExists(m.fs, b0.BuildScript)
        f1 == IF FileExists(m.fs, destFile) THEN m.fs
              ELSE WriteFile(m.fs, destFile, m.fs[b0.BuildScript].content)
        ev(r) == CmdEvent(b0.Name, "compile", destFile, <<>>, <<>>, b0.SrcDir, r)
        b1 == Detect(b0, m.fs)
        mf == findMakefile(b1, m.fs)
    IN  IF b0.BuildScript # <<>>
        THEN IF ~copied THEN Failed(m, "unable to copy the build script")
             ELSE IF ok THEN [m EXCEPT !.fs = f1, !.log = Append(m.log, ev(TRUE))]
             ELSE [m EXCEPT !.fs = f1, !.log = Append(m.log, ev(FALSE)),
                            !.err = "command failed"]
        ELSE IF b0.SrcDir = <<>> THEN Failed(m, "invalid parameter(s)")
        ELSE IF mf.err # NoErr
        THEN [m EXCEPT !.b = b1, !.err = "failed to figure out how to compile"]
        ELSE RunMake([m EXCEPT !.b = b1], FALSE, <<>>, mf.path, mf.args, ok)

\* strings.TrimSuffix
TrimSuffix(s, suffix) ==
    IF HasSuffix(s, suffix) THEN SubSeq(s, 1, Len(s) - Len(suffix)) ELSE s

\* strings.Replace(s, old, new, -1): every occurrence
RECURSIVE ReplaceAll(_, _, _)
ReplaceAll(s, old, new) ==
    LET i == Index(s, old)
    IN  IF i = -1 THEN s
        ELSE Slice(s, 0, i) \o new \o ReplaceAll(SliceFrom(s, i + Len(old)), old, new)

\* a faulty variant of getNameFromFilename that keeps the file name
getNameFromFilenameKept(filename) == filename

\* getNameFromFilename: the extensions bz2, gz, tgz and tar are taken off
\* in that order, the format being detected again after each
getNameFromFilename(filename) ==
    LET f1 == IF DetectTarballFormat(filename) = "bz2"
              THEN TrimSuffix(filename, <<".", "b", "z", "2">>) ELSE filename
        f2 == IF DetectTarballFormat(f1) = "gz" THEN TrimSuffix(f1, <<".", "g", "z">>) ELSE f1
        f3 == IF DetectTarballFormat(f2) = "tgz" THEN TrimSuffix(f2, <<".", "t", "g", "z">>) ELSE f2
    IN  IF DetectTarballFormat(f3) = "tar" THEN TrimSuffix(f3, <<".", "t", "a", "r">>) ELSE f3

\* Info.getAppInstallDirFromURL
getAppInstallDirFromURL(b0) ==
    LET urlType == DetectURLType(b0.URL)
    IN  IF urlType \in {"file", "http"}
        THEN Join(b0.InstallDir, getNameFromFilename(Base(b0.URL)))
        ELSE IF urlType = "git"
        THEN Join(b0.InstallDir, ReplaceAll(Base(b0.URL), <<".", "g", "i", "t">>, <<>>))
        ELSE <<>>

\* Info.getTargetDir
getTargetDir(b0, basedir) ==
    IF b0.Name # <<>> THEN Join(basedir, b0.Name)
    ELSE IF b0.URL # <<>> THEN getAppInstallDirFromURL(b0)
    ELSE <<>>

\* Info.GetAppInstallDir
GetAppInstallDir(b0) == getTargetDir(b0, b0.InstallDir)

\* Info.GetAppBuildDir
GetAppBuildDir(b0) == getTargetDir(b0, b0.BuildDir)

\* a faulty variant of install that does not create the install directory
\* of the component
installUnprepared(m, ok) ==
    LET b0 == m.b
        targetDir == Join(b0.InstallDir, b0.Name)
        canMkdir == IsDir(m.fs, Dir(targetDir))
        f1 == m.fs
        mf == findMakefile(b0, m.fs)
        src == GetAppBuildDir(b0)
        ev(r) == CmdEvent(b0.Name, "install", <<"c", "p">>, <<<<"-", "r", "f">>, src, b0.InstallDir>>,
                          <<>>, <<>>, r)
    IN  IF b0.InstallDir = <<>> \/ b0.BuildDir = <<>> THEN Failed(m, "invalid parameter(s)")
        ELSE IF b0.HasMakeInstall
        THEN IF ~PathExists(m.fs, targetDir) /\ ~canMkdir THEN Failed(m, "mkdir failed")
             ELSE IF mf.err # NoErr
             THEN [m EXCEPT !.fs = f1, !.err = "unable to find Makefile"]
             ELSE RunMake([m EXCEPT !.fs = f1], b0.SudoRequired, <<"i", "n", "s", "t", "a", "l", "l">>,
                          mf.path, mf.args, ok)
        ELSE IF ok /\ PathExists(m.fs, src) /\ <<"c", "p">> \in Binaries
        THEN [m EXCEPT !.fs = CopyTree(m.fs, src, b0.InstallDir),
                       !.log = Append(m.log, ev(TRUE))]
        ELSE [m EXCEPT !.log = Append(m.log, ev(FALSE)), !.err = "command failed"]

\* Builder.install
install(m, ok) ==
    LET b0 == m.b
        targetDir == Join(b0.InstallDir, b0.Name)
        canMkdir == IsDir(m.fs, Dir(targetDir))
        f1 == IF PathExists(m.fs, targetDir) THEN m.fs ELSE MkdirAll(m.fs, targetDir)
        mf == findMakefile(b0, m.fs)
        src == GetAppBuildDir(b0)
        ev(r) == CmdEvent(b0.Name, "install", <<"c", "p">>, <<<<"-", "r", "f">>, src, b0.InstallDir>>,
                          <<>>, <<>>, r)
    IN  IF b0.InstallDir = <<>> \/ b0.BuildDir = <<>> THEN Failed(m, "invalid parameter(s)")
        ELSE IF b0.HasMakeInstall
        THEN IF ~PathExists(m.fs, targetDir) /\ ~canMkdir THEN Failed(m, "mkdir failed")
             ELSE IF mf.err # NoErr
             THEN [m EXCEPT !.fs = f1, !.err = "unable to find Makefile"]
             ELSE RunMake([m EXCEPT !.fs = f1], b0.SudoRequired, <<"i", "n", "s", "t", "a", "l", "l">>,
                          mf.path, mf.args, ok)
        ELSE IF ok /\ PathExists(m.fs, src) /\ <<"c", "p">> \in Binaries
        THEN [m EXCEPT !.fs = CopyTree(m.fs, src, b0.InstallDir),
                       !.log = Append(m.log, ev(TRUE))]
        ELSE [m EXCEPT !.log = Append(m.log, ev(FALSE)), !.err = "command failed"]

(***************************************************************************)
(* Package stack                                                           *)
(***************************************************************************)

\* the names of the directories directly in directory p
SubDirs(f, p) == {e \in EntryNames(f, p) : IsDir(f, Join(p, e))}

\* GetCompBuildDir: [err, dir]
GetCompBuildDir(f, stackBasedir, compName) ==
    LET compBuildDir == Join(Join(stackBasedir, DBuild), compName)
        dirs == SubDirs(f, compBuildDir)
        targetDir == IF dirs = {} THEN <<>> ELSE MinName(dirs)
    IN  IF PathExists(f, compBuildDir)
        THEN [err |-> NoErr, dir |-> Join(compBuildDir, targetDir)]
        ELSE [err |-> "unable to figure out the build directory", dir |-> <<>>]

\* GetCompSrcDir: [err, dir]
GetCompSrcDir(f, stackBasedir, compName) ==
    LET compSrcDir == Join(stackBasedir, DSrc)
        hits == {e \in EntryNames(f, compSrcDir) : Contains(e, compName)}
        targetDir == IF hits = {} THEN <<>> ELSE MinName(hits)
    IN  IF IsDir(f, compSrcDir)
        THEN [err |-> NoErr, dir |-> Join(compSrcDir, targetDir)]
        ELSE [err |-> "unable to figure out the source directory", dir |-> <<>>]

\* createNewPathForComp
createNewPathForComp(compBinDir) ==
    PathKey \o <<"=">> \o compBinDir \o <<":">> \o OsPath \o <<":", "$", "P", "A", "T", "H">>

\* the positions of the PATH entries of a build environment, as the loop of
\* InstallStack finds them: strings.Split(envvar, "=")[0] == "PATH"
PathEntries(env) == {i \in 1..Len(env) : Split(env[i], <<"=">>)[1] = PathKey}

\* a faulty variant of UpdatePath that puts a new PATH entry in front of the
\* environment
UpdatePathFront(env, compBinDir) ==
    [panic |-> FALSE, env |-> <<createNewPathForComp(compBinDir)>> \o env]

\* the PATH update of InstallStack for a component whose bin directory
\* exists: [panic, env]
UpdatePath(env, compBinDir) ==
    LET hits == PathEntries(env)
        i == CHOOSE k \in hits : \A j \in hits : k <= j
        tokens == Split(env[i], <<"=">>)
    IN  IF Len(env) = 0
        THEN [panic |-> FALSE, env |-> <<createNewPathForComp(compBinDir)>>]
        ELSE IF hits = {}
        THEN [panic |-> FALSE, env |-> Append(env, createNewPathForComp(compBinDir))]
        ELSE IF Len(tokens) < 2
        THEN [panic |-> TRUE, env |-> env]
        ELSE [panic |-> FALSE,
              env |-> [env EXCEPT ![i] = PathKey \o <<"=">> \o compBinDir \o <<":">> \o tokens[2]]]

\* the loop of InstallStack over the elements of the component's build_env:
\* UpdateRefs on each element that contains "@", stopping at the first
\* error or panic (bad is the element it stopped at): [err, panic, env, bad]
RECURSIVE ResolveEnv(_)
ResolveEnv(customEnv) ==
    IF customEnv = <<>> THEN [err |-> NoErr, panic |-> FALSE, env |-> <<>>, bad |-> <<>>]
    ELSE LET e == customEnv[1]
             r == IF Contains(e, RefEndDelimiter) THEN UpdateRefs(e)
                  ELSE [err |-> NoErr, panic |-> FALSE, out |-> e]
             rest == ResolveEnv(Tail(customEnv))
         IN  IF r.err # NoErr \/ r.panic
             THEN [err |-> r.err, panic |-> r.panic, env |-> <<>>, bad |-> e]
             ELSE [err |-> rest.err, panic |-> rest.panic,
                   env |-> IF rest.err # NoErr \/ rest.panic THEN <<>>
                           ELSE <<r.out>> \o rest.env,
                   bad |-> rest.bad]

\* a faulty variant of ConfigureOption that ignores the configure ids
ConfigureOptionRaw(dep, ids, installed) ==
    <<"-", "-", "w", "i", "t", "h", "-">> \o dep \o <<"=">> \o MapGet(installed, dep)

\* the --with- option of one dependency
ConfigureOption(dep, ids, installed) ==
    <<"-", "-", "w", "i", "t", "h", "-">> \o (IF dep \in DOMAIN ids THEN ids[dep] ELSE dep) \o <<"=">>
        \o MapGet(installed, dep)

\* the ExtraConfigureArgs InstallStack builds for a component
ExtraConfigureArgs(c, ids, installed) ==
    LET deps == IF c.ConfigureDependency = <<>> THEN <<>>
                ELSE Split(c.ConfigureDependency, <<",">>)
        params == IF c.ConfigureParams = <<>> THEN <<>>
                  ELSE Split(c.ConfigureParams, <<" ">>)
    IN  [i \in 1..Len(deps) |-> ConfigureOption(deps[i], ids, installed)] \o params

\* Builder.Load: the error it returns
Load(b0) ==
    IF b0.Name = <<>> THEN "application's name is undefined"
    ELSE IF b0.URL = <<>> THEN "the URL to download application is undefined"
    ELSE IF b0.ScratchDir = <<>> THEN "scratch directory is undefined"
    ELSE IF b0.BuildDir = <<>> THEN "build directory is undefined"
    ELSE IF b0.InstallDir = <<>> THEN "install directory is undefined"
    ELSE NoErr

\* os.MkdirAll when the path does not exist yet
EnsureDir(f, p) == IF PathExists(f, p) THEN f ELSE MkdirAll(f, p)

(***************************************************************************)
(* Bounds and inputs                                                       *)
(***************************************************************************)

\* the longest stack definition
MaxComps == 3

\* how many times InstallStack is called on the same configuration
MaxRuns == 2

\* how many external commands may fail over a behaviour
MaxFaults == 1

NewComponent ==
    [Name |-> <<>>, URL |-> <<>>, Branch |-> <<>>, BranchCheckoutPrelude |-> <<>>,
     ConfigId |-> <<>>, ConfigureDependency |-> <<>>, ConfigurePrelude |-> <<>>,
     ConfigureParams |-> <<>>, BuildEnv |-> <<>>]

\* the components of the stack definitions
Templates ==
    [\* a directory with a configure script, known to its dependents as x
     A |->
        [NewComponent EXCEPT !.Name = <<"a">>, !.URL = UDir, !.ConfigId = <<"x">>],
     \* a tarball with a configure script; its name contains an underscore
     CD |->
        [NewComponent EXCEPT !.Name = <<"c", "_", "d">>,
                           !.URL = UTar,
                           !.ConfigureDependency = <<"a">>,
                           !.ConfigureParams = <<"-", "e", " ", "f">>,
                           !.ConfigurePrelude = <<"p", " ", "i">>,
                           !.BuildEnv = <<"K", "=", "@", "r", "e", "f", ":", "a", "_", "i", "n", "s", "t", "a", "l", "l", "_", "d", "i", "r", "@", "/", "l", " ", "J", "=", "@", "r", "e", "f", ":", "a", "_", "b", "u", "i", "l", "d", "_", "d", "i", "r", "@">>],
     \* a tarball that depends on both, in that order, and on an unknown name
     B |->
        [NewComponent EXCEPT !.Name = <<"b">>,
                           !.URL = UTar,
                           !.ConfigureDependency = <<"a", ",", "c", "_", "d", ",", "z">>,
                           !.ConfigureParams = <<"-", "g">>,
                           !.BuildEnv = <<"V", "=", "@", "r", "e", "f", ":", "c", "_", "d", "_", "i", "n", "s", "t", "a", "l", "l", "_", "d", "i", "r", "@", " ", "W", "=", "1">>],
     \* a lone Makefile whose build leaves an obj directory beside it
     M |->
        [NewComponent EXCEPT !.Name = <<"m">>, !.URL = UMk],
     \* the same Makefile, with a configure prelude
     MP |->
        [NewComponent EXCEPT !.Name = <<"m">>, !.URL = UMk,
                           !.ConfigurePrelude = <<"p", " ", "i">>],
     \* a git repository with a plain Makefile
     G |->
        [NewComponent EXCEPT !.Name = <<"g">>,
                           !.URL = UGit,
                           !.BuildEnv = <<"Q", "=", "@", "r", "e", "f", ":", "a", "_", "s", "r", "c", "_", "d", "i", "r", "@">>],
     \* the same repository, with a branch and a branch checkout prelude
     GB |->
        [NewComponent EXCEPT !.Name = <<"g">>,
                           !.URL = UGit,
                           !.Branch = <<"v">>,
                           !.BranchCheckoutPrelude = <<"g", "i", "t", " ", "f", "e", "t", "c", "h">>],
     \* a git repository with autogen.sh and no configure script
     Q |->
        [NewComponent EXCEPT !.Name = <<"q">>, !.URL = UGitAuto],
     \* an http URL
     H |->
        [NewComponent EXCEPT !.Name = <<"h">>, !.URL = UHttp],
     \* a tarball with two top-level directories
     U |->
        [NewComponent EXCEPT !.Name = <<"u">>, !.URL = UTarTwo],
     \* build environments with a broken reference: no start delimiter, no end
     \* delimiter, no underscore in the reference
     N1 |->
        [NewComponent EXCEPT !.Name = <<"n">>,
                           !.URL = UDir,
                           !.BuildEnv = <<"W", "=", "1", " ", "M", "=", "u", "@", "v">>],
     N2 |->
        [NewComponent EXCEPT !.Name = <<"n">>,
                           !.URL = UDir,
                           !.BuildEnv = <<"M", "=", "@", "r", "e", "f", ":", "a", "_", "i", "n", "s", "t", "a", "l", "l", "_", "d", "i", "r">>],
     N3 |->
        [NewComponent EXCEPT !.Name = <<"n">>,
                           !.URL = UDir,
                           !.BuildEnv = <<"M", "=", "@", "r", "e", "f", ":", "a", "@">>]]

AllStacks ==
    {<<Templates.A>>, <<Templates.Q>>, <<Templates.GB>>, <<Templates.MP>>, <<Templates.A, Templates.CD>>, <<Templates.CD, Templates.A>>, <<Templates.M, Templates.A>>, <<Templates.G, Templates.A>>,
     <<Templates.A, Templates.G>>, <<Templates.A, Templates.N1>>, <<Templates.N2, Templates.A>>, <<Templates.A, Templates.N3>>,
     <<Templates.H, Templates.A>>, <<Templates.A, Templates.U>>,
     <<Templates.A, Templates.CD, Templates.B>>, <<Templates.A, Templates.M, Templates.G>>,
     <<Templates.A, Templates.CD, Templates.B, Templates.M>>}

Stacks == {s \in AllStacks : Len(s) <= MaxComps}

\* the stack type, the Private flag, the initial build environment, and
\* whether the install root starts with the install directory of component
\* a in place and no build directory (a stack imported from elsewhere)
Setups ==
    {[Type |-> <<"p", "r", "i", "v", "a", "t", "e">>, Private |-> TRUE, BuildEnv |-> <<>>, Imported |-> FALSE],
     [Type |-> <<"p", "u", "b", "l", "i", "c">>, Private |-> TRUE, BuildEnv |-> <<>>, Imported |-> FALSE],
     [Type |-> <<"p", "r", "i", "v", "a", "t", "e">>, Private |-> FALSE,
      BuildEnv |-> <<<<"C", "C", "=", "k">>, <<"P", "A", "T", "H", "=", "/", "u", "=", "v">>>>, Imported |-> FALSE],
     [Type |-> <<"p", "u", "b", "l", "i", "c">>, Private |-> FALSE,
      BuildEnv |-> <<<<"P", "A", "T", "H", "=", "/", "y">>, <<"C", "C", "=", "k">>>>, Imported |-> FALSE],
     [Type |-> <<"p", "u", "b", "l", "i", "c">>, Private |-> FALSE, BuildEnv |-> <<<<"C", "C", "=", "k">>>>, Imported |-> FALSE],
     [Type |-> <<"p", "u", "b", "l", "i", "c">>, Private |-> FALSE, BuildEnv |-> <<>>, Imported |-> TRUE]}

StackName == <<"s">>

ConfigInstallDir == <<"/", "i">>

(***************************************************************************)
(* Config.InstallStack, one action per step                                *)
(***************************************************************************)

PrivateType == <<"p", "r", "i", "v", "a", "t", "e">>

Components == StackDefinition.Components

\* the component InstallStack is working on
softwareComponent == Components[idx]

stackBasedir == Join(StackInstallDir, StackDefinition.Name)

\* the machine state the current step starts from
Machine == [b |-> b, fs |-> fs, log |-> log, err |-> NoErr]

\* InstallStack returns the error e
Return(e) == pc' = "idle" /\ err' = e

\* the Go run time stops the program
Panic == pc' = "panic" /\ err' = "panic"

Config == <<Private, StackDefinition, StackInstallDir>>

Maps == <<InstalledComponents, BuiltComponents, SrcComponents>>

Locals == <<installedComponents, configIds>>

Direct == <<token, refRes>>

Init ==
    /\ \E s \in Stacks, u \in Setups :
          /\ StackDefinition = [Name |-> StackName, Type |-> u.Type, Components |-> s]
          /\ Private = u.Private
          /\ BuildEnv = u.BuildEnv
          /\ fs = IF u.Imported THEN MkdirAll(LocalFS, <<"/", "i", "/", "s", "/", "i", "n", "s", "t", "a", "l", "l", "/", "a">>) ELSE LocalFS
    /\ StackInstallDir = ConfigInstallDir
    /\ InstalledComponents = EmptyMap
    /\ BuiltComponents = EmptyMap
    /\ SrcComponents = EmptyMap
    /\ pc = "idle"
    /\ run = 0
    /\ idx = 0
    /\ installedComponents = EmptyMap
    /\ configIds = EmptyMap
    /\ b = NewBuilder
    /\ err = NoErr
    /\ log = <<>>
    /\ faults = 0
    /\ token = <<>>
    /\ refRes = [err |-> NoErr, panic |-> FALSE, out |-> <<>>]

\* a faulty variant of Prohibited that lets every stack through
ProhibitedNever(type, private) == FALSE

\* the test of line 337: a private stack on a system declared public
Prohibited(type, private) == type = PrivateType /\ private

\* InstallStack is called: the local maps, the private check, the install
\* root (lines 323-346)
Begin ==
    /\ pc = "idle"
    /\ run < MaxRuns
    /\ run' = run + 1
    /\ installedComponents' = EmptyMap
    /\ configIds' = EmptyMap
    /\ log' = <<>>
    /\ b' = NewBuilder
    /\ IF Prohibited(StackDefinition.Type, Private)
       THEN /\ Return("private stack on a public system")
            /\ UNCHANGED <<fs, idx>>
       ELSE /\ fs' = EnsureDir(fs, StackInstallDir)
            /\ IF Len(Components) = 0
               THEN Return(NoErr) /\ idx' = 0
               ELSE pc' = "prepare" /\ err' = NoErr /\ idx' = 1
    /\ UNCHANGED <<Config, BuildEnv, Maps, faults, Direct>>

\* the builder InstallStack sets up for the current component once the
\* environment env is resolved (lines 359-441)
PreparedBuilder(env) ==
    LET c == softwareComponent
    IN  [NewBuilder EXCEPT
            !.ScratchDir = Join(stackBasedir, DScratch),
            !.InstallDir = Join(stackBasedir, DInstall),
            !.BuildDir = Join(stackBasedir, DBuild),
            !.SrcDir = Join(stackBasedir, DSrc),
            !.Env = env \o BuildEnv,
            !.Name = c.Name,
            !.URL = c.URL,
            !.Branch = c.Branch,
            !.ExtraConfigureArgs = ExtraConfigureArgs(c, configIds, installedComponents),
            !.ConfigurePreludeCmd = c.ConfigurePrelude,
            !.BranchCheckoutPrelude = c.BranchCheckoutPrelude]

\* the head of the loop body: directories, environment, builder, b.Load
\* (lines 349-446)
Prepare ==
    /\ pc = "prepare"
    /\ LET c == softwareComponent
           f1 == EnsureDir(fs, stackBasedir)
           customEnv == IF c.BuildEnv = <<>> THEN <<>> ELSE Split(c.BuildEnv, <<" ">>)
           r == ResolveEnv(customEnv)
           b1 == PreparedBuilder(r.env)
           f2 == EnsureDir(EnsureDir(EnsureDir(EnsureDir(f1, b1.ScratchDir),
                                               b1.InstallDir), b1.BuildDir), b1.SrcDir)
       IN  /\ log' = Append(log, StepEvent(c.Name, "begin"))
           /\ IF r.panic \/ r.err # NoErr
              THEN token' = r.bad /\ refRes' = UpdateRefs(r.bad)
              ELSE UNCHANGED Direct
           /\ IF r.panic
              THEN Panic /\ fs' = f1 /\ b' = NewBuilder
              ELSE IF r.err # NoErr
              THEN Return("updateTestRefs() failed") /\ fs' = f1 /\ b' = NewBuilder
              ELSE /\ fs' = f2
                   /\ b' = b1
                   /\ IF Load(b1) # NoErr
                      THEN Return("unable to load the builder")
                      ELSE pc' = "install" /\ err' = NoErr
    /\ UNCHANGED <<Config, BuildEnv, Maps, run, idx, Locals, faults>>

\* a faulty variant of Advance that goes on after an error
AdvanceAnyway(m1, next, e) ==
    /\ b' = m1.b
    /\ fs' = m1.fs
    /\ log' = m1.log
    /\ pc' = next
    /\ err' = NoErr

\* the step leaves the machine state m1: on an error InstallStack returns
\* the wrapped error e, otherwise it goes on to the step next
Advance(m1, next, e) ==
    /\ b' = m1.b
    /\ fs' = m1.fs
    /\ log' = m1.log
    /\ IF m1.err # NoErr THEN Return(e) ELSE pc' = next /\ err' = NoErr

\* an external command fails (ok = FALSE) at most MaxFaults times, and only
\* where its failure changes what the step leaves (m1 against mOk)
Outcome(ok, m1, mOk) ==
    /\ ok \/ (faults < MaxFaults /\ m1 # mOk)
    /\ faults' = IF ok THEN faults ELSE faults + 1

Rest == <<Config, BuildEnv, Maps, run, idx, Locals, Direct>>

\* a faulty variant of InstallCheck that never takes a component for
\* installed
InstallCheckNoSkip ==
    /\ pc = "install"
    /\ IF b.InstallDir = <<>> \/ b.URL = <<>>
       THEN Return("unable to install: undefined parameter") /\ b' = b
       ELSE b' = b /\ pc' = "get" /\ err' = NoErr
    /\ log' = Append(log, StepEvent(b.Name, "check"))
    /\ UNCHANGED <<fs, faults>>
    /\ UNCHANGED Rest

\* Builder.Install, the sanity checks and the already-installed test
\* (lines 393-421)
InstallCheck ==
    /\ pc = "install"
    /\ LET appInstallDir == GetAppInstallDir(b)
       IN  IF b.InstallDir = <<>> \/ b.URL = <<>>
           THEN Return("unable to install: undefined parameter") /\ b' = b
           ELSE IF PathExists(fs, appInstallDir)
           THEN b' = [b EXCEPT !.SrcDir = appInstallDir] /\ pc' = "record" /\ err' = NoErr
           ELSE b' = b /\ pc' = "get" /\ err' = NoErr
    /\ log' = Append(log, StepEvent(b.Name, "check"))
    /\ UNCHANGED <<fs, faults>>
    /\ UNCHANGED Rest

\* b.Env.Get and the test of SrcPath (lines 423-431)
GetSource ==
    /\ pc = "get"
    /\ \E ok \in BOOLEAN :
          LET m0 == Logged(Machine, StepEvent(b.Name, "get"))
              m1 == Get(m0, ok)
              m2 == IF m1.err = NoErr /\ m1.b.SrcPath = <<>>
                    THEN Failed(m1, "failed to get a path to the source") ELSE m1
          IN  /\ Outcome(ok, m1, Get(m0, TRUE))
              /\ Advance(m2, "unpack", "unable to install: failed to download software")
    /\ UNCHANGED Rest

\* b.Env.Unpack, then AutotoolsCfg.Source and Detect (lines 433-440)
UnpackSource ==
    /\ pc = "unpack"
    /\ \E ok \in BOOLEAN :
          LET m0 == Logged(Machine, StepEvent(b.Name, "unpack"))
              m1 == Unpack(m0, ok)
              m2 == IF m1.err # NoErr THEN m1
                    ELSE [m1 EXCEPT !.b = Detect([m1.b EXCEPT !.Source = m1.b.SrcDir], m1.fs)]
          IN  /\ Outcome(ok, m1, Unpack(m0, TRUE))
              /\ Advance(m2, "configure", "unable to install: failed to unpack")
    /\ UNCHANGED Rest

\* b.Configure (lines 442-451)
ConfigureSource ==
    /\ pc = "configure"
    /\ \E okPrelude \in BOOLEAN, ok \in BOOLEAN :
          LET m0 == Logged(Machine, StepEvent(b.Name, "configure"))
              conf(p, o) == GenericConfigure(m0, b.Name, b.ExtraConfigureArgs,
                                             b.ConfigurePreludeCmd, p, o)
              m1 == conf(okPrelude, ok)
          IN  /\ okPrelude \/ ok
              /\ Outcome(okPrelude /\ ok, m1, conf(TRUE, TRUE))
              /\ Advance(m1, "compile", "unable to install: failed to configure")
    /\ UNCHANGED Rest

\* b.compile (lines 453-457)
CompileSource ==
    /\ pc = "compile"
    /\ \E ok \in BOOLEAN :
          LET m0 == Logged(Machine, StepEvent(b.Name, "compile"))
              m1 == compile(m0, ok)
          IN  /\ Outcome(ok, m1, compile(m0, TRUE))
              /\ Advance(m1, "installphase", "unable to install: failed to compile")
    /\ UNCHANGED Rest

\* b.install (lines 459-465)
InstallSource ==
    /\ pc = "installphase"
    /\ \E ok \in BOOLEAN :
          LET m0 == Logged(Machine, StepEvent(b.Name, "install"))
              m1 == install(m0, ok)
          IN  /\ Outcome(ok, m1, install(m0, TRUE))
              /\ Advance(m1, "record", "unable to install: failed to install software")
    /\ UNCHANGED Rest

\* the tail of the loop body: the local and global maps, the PATH of the
\* accumulated environment, the next component (lines 453-515)
Record ==
    /\ pc = "record"
    /\ LET c == softwareComponent
           compInstallDir == Join(b.InstallDir, c.Name)
           built == GetCompBuildDir(fs, stackBasedir, c.Name)
           src == GetCompSrcDir(fs, stackBasedir, c.Name)
           compBinDir == Join(compInstallDir, DBin)
           p == UpdatePath(BuildEnv, compBinDir)
       IN  /\ configIds' = IF c.ConfigId # <<>> THEN MapSet(configIds, c.Name, c.ConfigId)
                           ELSE configIds
           /\ installedComponents' = MapSet(installedComponents, c.Name, compInstallDir)
           /\ InstalledComponents' = MapSet(InstalledComponents, c.Name, compInstallDir)
           /\ BuiltComponents' = IF built.err = NoErr
                                 THEN MapSet(BuiltComponents, c.Name, built.dir)
                                 ELSE BuiltComponents
           /\ SrcComponents' = IF built.err = NoErr /\ src.err = NoErr
                               THEN MapSet(SrcComponents, c.Name, src.dir)
                               ELSE SrcComponents
           /\ IF built.err # NoErr
              THEN Return("unable to get build dir from component") /\ UNCHANGED <<BuildEnv, idx>>
              ELSE IF src.err # NoErr
              THEN Return("unable to get source dir from component") /\ UNCHANGED <<BuildEnv, idx>>
              ELSE IF PathExists(fs, compBinDir) /\ p.panic
              THEN Panic /\ UNCHANGED <<BuildEnv, idx>>
              ELSE /\ BuildEnv' = IF PathExists(fs, compBinDir) THEN p.env ELSE BuildEnv
                   /\ IF idx < Len(Components)
                      THEN idx' = idx + 1 /\ pc' = "prepare" /\ err' = NoErr
                      ELSE idx' = idx /\ Return(NoErr)
    /\ log' = Append(log, StepEvent(b.Name, "record"))
    /\ UNCHANGED <<Config, fs, run, b, faults, Direct>>

Next ==
    \/ Begin
    \/ Prepare
    \/ InstallCheck
    \/ GetSource
    \/ UnpackSource
    \/ ConfigureSource
    \/ CompileSource
    \/ InstallSource
    \/ Record

Spec == Init /\ [][Next]_vars

(***************************************************************************)
(* Properties of InstallStack                                              *)
(***************************************************************************)

\* the position of the component called name in the stack definition
\* (0 when there is none)
CompPos(name) ==
    LET hits == {i \in 1..Len(Components) : Components[i].Name = name}
    IN  IF hits = {} THEN 0 ELSE CHOOSE i \in hits : \A j \in hits : i <= j

\* the steps the current call has started, by position of their component
StartedPositions == {CompPos(log[i].comp) : i \in 1..Len(log)}

\* the external commands and file copies of the current call
Commands == {i \in 1..Len(log) : log[i].bin # <<>>}

\* the step the program is about to take returns an error whatever its
\* external command does
FailsAlways ==
    \/ /\ pc = "prepare"
       /\ LET c == softwareComponent
              r == ResolveEnv(IF c.BuildEnv = <<>> THEN <<>> ELSE Split(c.BuildEnv, <<" ">>))
          IN  ~r.panic /\ (r.err # NoErr \/ Load(PreparedBuilder(r.env)) # NoErr)
    \/ pc = "get" /\ Get(Machine, TRUE).err # NoErr
    \/ pc = "unpack" /\ Unpack(Machine, TRUE).err # NoErr
    \/ /\ pc = "configure"
       /\ GenericConfigure(Machine, b.Name, b.ExtraConfigureArgs,
                           b.ConfigurePreludeCmd, TRUE, TRUE).err # NoErr
    \/ pc = "compile" /\ compile(Machine, TRUE).err # NoErr
    \/ pc = "installphase" /\ install(Machine, TRUE).err # NoErr

\* the step just taken ran an external command that failed
CommandFailed ==
    /\ Len(log') > Len(log)
    /\ pc \in {"get", "unpack", "configure", "compile", "installphase"}
    /\ ~log'[Len(log')].ok

\* no step of a component declared after the current one was started
NoLaterStarted == \A p \in StartedPositions : p <= idx

\* C1: when a step of the component at position k fails (reference
\* resolution, builder load, acquisition, unpack, configure, compile or
\* install returns an error), InstallStack returns a non-nil error at once,
\* still at position k, and no step of a component declared after k was
\* started in that call.  A call cut short by a run-time panic starts no
\* later component either.
C1_AbortOnFirstFailure ==
    [][/\ (FailsAlways \/ CommandFailed) => (pc' = "idle" /\ err' # NoErr /\ idx' = idx)
       /\ (pc' \in {"idle", "panic"} /\ err' # NoErr) => NoLaterStarted'
       /\ pc \in {"idle", "panic"} => run' = run + 1]_vars

\* a call that returned the error of a failed command of a component that
\* is not the last one
C1_Witness ==
    /\ pc = "idle"
    /\ err # NoErr
    /\ idx >= 1
    /\ idx < Len(Components)
    /\ \E i \in Commands : ~log[i].ok /\ CompPos(log[i].comp) = idx

\* the component at position k is recorded: by this call in the local map,
\* and in the three resolution maps
Recorded(k) ==
    LET n == Components[k].Name
    IN  /\ n \in DOMAIN installedComponents
        /\ n \in DOMAIN InstalledComponents
        /\ n \in DOMAIN BuiltComponents
        /\ n \in DOMAIN SrcComponents

\* C2: the components are processed one at a time in declaration order: the
\* steps of a call never go back to an earlier component, and when any step
\* of the component at position j has started, every component declared
\* before j has its install, build and source directories recorded.
C2_SequentialOrder ==
    /\ \A i \in 1..Len(log) : \A k \in 1..(CompPos(log[i].comp) - 1) : Recorded(k)
    /\ \A i \in 2..Len(log) : CompPos(log[i - 1].comp) <= CompPos(log[i].comp)
    /\ pc \notin {"idle", "panic"} => \A k \in 1..(idx - 1) : Recorded(k)

\* the steps of a second component have started in the first call
C2_Witness ==
    /\ run = 1
    /\ \E i \in Commands : CompPos(log[i].comp) = 2
    /\ Recorded(1)

C4_MapsOnlyGrow ==
    [][/\ DOMAIN InstalledComponents \subseteq DOMAIN InstalledComponents'
       /\ DOMAIN BuiltComponents \subseteq DOMAIN BuiltComponents'
       /\ DOMAIN SrcComponents \subseteq DOMAIN SrcComponents']_vars

\* a second call failed on a later component and the first component is
\* still recorded in the three maps
C4_Witness ==
    /\ run = 2
    /\ pc = "idle"
    /\ err # NoErr
    /\ idx >= 2
    /\ Components[1].Name \in DOMAIN InstalledComponents
    /\ Components[1].Name \in DOMAIN BuiltComponents
    /\ Components[1].Name \in DOMAIN SrcComponents

\* the directory the build of component n ran in, in the current call: the
\* working directory of its successful make (<<>> when it was not built)
BuildRanIn(n) ==
    LET hits == {i \in Commands : log[i].comp = n /\ log[i].step = "compile" /\ log[i].ok}
    IN  IF hits = {} THEN <<>> ELSE log[CHOOSE i \in hits : TRUE].dir

\* C5: after a successful InstallStack, for every component c,
\* InstalledComponents[c.Name] is <installDir>/<stackName>/install/<c.Name>
\* and BuiltComponents[c.Name] is <installDir>/<stackName>/build/<c.Name>/<d>,
\* the directory the build of c actually ran in.
C5_RecordedPaths ==
    (pc = "idle" /\ err = NoErr /\ run >= 1) =>
        \A k \in 1..Len(Components) :
            LET n == Components[k].Name
            IN  /\ n \in DOMAIN InstalledComponents
                /\ n \in DOMAIN BuiltComponents
                /\ InstalledComponents[n] = Join(Join(stackBasedir, DInstall), n)
                /\ Dir(BuiltComponents[n]) = Join(Join(stackBasedir, DBuild), n)
                /\ BuildRanIn(n) # <<>> => BuiltComponents[n] = BuildRanIn(n)

\* the position of the component called d among those declared before
\* position k, all recorded by the current call when it reaches k (0 when
\* there is none)
RecordedBefore(d, k) ==
    LET hits == {i \in 1..(k - 1) : Components[i].Name = d}
    IN  IF hits = {} THEN 0 ELSE CHOOSE i \in hits : \A j \in hits : i >= j

\* the flag the claim gives for dependency d of the component at position k
ExpectedFlag(d, k) ==
    LET j == RecordedBefore(d, k)
        r == IF j # 0 /\ Components[j].ConfigId # <<>> THEN Components[j].ConfigId ELSE d
        p == IF j # 0 THEN Join(Join(stackBasedir, DInstall), d) ELSE <<>>
    IN  <<"-", "-", "w", "i", "t", "h", "-">> \o r \o <<"=">> \o p

\* the extra configure arguments the claim gives for position k
ExpectedArgs(k) ==
    LET c == Components[k]
        deps == IF c.ConfigureDependency = <<>> THEN <<>>
                ELSE Split(c.ConfigureDependency, <<",">>)
        params == IF c.ConfigureParams = <<>> THEN <<>>
                  ELSE Split(c.ConfigureParams, <<" ">>)
    IN  [i \in 1..Len(deps) |-> ExpectedFlag(deps[i], k)] \o params

\* the ./configure runs of the current call
ConfigureRuns == {i \in Commands : log[i].bin = <<".", "/", "c", "o", "n", "f", "i", "g", "u", "r", "e">>}

PathAssign == PathKey \o <<"=">>

\* the positions of the entries of env whose key is PATH
PathPositions(env) == {i \in 1..Len(env) : HasPrefix(env[i], PathAssign)}

\* the complete value of the PATH entry of env (when it has exactly one)
PathValue(env) ==
    SliceFrom(env[CHOOSE i \in PathPositions(env) : TRUE], Len(PathAssign))

\* the step completes the current component
Completes == pc = "record" /\ pc' \in {"prepare", "idle"} /\ err' = NoErr

\* the bin directory of the current component
CurrentBinDir == Join(Join(Join(stackBasedir, DInstall), softwareComponent.Name), DBin)

\* C9: after each component completes, Data.BuildEnv holds at most one PATH
\* entry if it held at most one before; if the component's install
\* directory has a bin subdirectory, the value of that entry is the bin
\* directory, then ":", then the complete previous PATH value; if it has
\* none, the accumulated environment is unchanged.
C9_PathAccumulation ==
    [][Completes =>
         /\ Cardinality(PathPositions(BuildEnv)) <= 1
               => Cardinality(PathPositions(BuildEnv')) <= 1
         /\ IsDir(fs, CurrentBinDir) =>
               /\ Cardinality(PathPositions(BuildEnv')) = 1
               /\ HasPrefix(PathValue(BuildEnv'), CurrentBinDir \o <<":">>)
               /\ Cardinality(PathPositions(BuildEnv)) = 1 =>
                     PathValue(BuildEnv') = CurrentBinDir \o <<":">> \o PathValue(BuildEnv)
         /\ ~PathExists(fs, CurrentBinDir) => BuildEnv' = BuildEnv]_vars

(***************************************************************************)
(* Config.UpdateRefs called directly                                       *)
(***************************************************************************)

Kinds == {KInstallDir, KBuildDir, KSrcDir}

\* pre @ref:<name>_<kind>@ post
RefToken(pre, name, kind, post) ==
    pre \o RefStartDelimiter \o name \o <<"_">> \o kind \o RefEndDelimiter \o post

RefNames == {<<"a">>, <<"c">>, <<"c", "_", "d">>, <<"z">>}

RefPres == {<<>>, <<"K", "=">>}

RefPosts == {<<>>, <<"/", "l">>}

WellFormedTokens ==
    {RefToken(p, n, k, q) : p \in RefPres, n \in RefNames, k \in Kinds, q \in RefPosts}

\* tokens without a start marker, or without an end marker after it
BrokenTokens ==
    {<<"W", "=", "1">>, <<"M", "=", "u", "@", "v">>, <<"@", "r", "e", "f">>, <<"M", "=", "@", "r", "e", "f", ":", "a", "_", "i", "n", "s", "t", "a", "l", "l", "_", "d", "i", "r">>, <<"@", "a", "_", "i", "n", "s", "t", "a", "l", "l", "_", "d", "i", "r", "@", "r", "e", "f", ":">>,
     <<"u", "@", "r", "e", "f", ":", "c", "_", "d", "_", "s", "r", "c", "_", "d", "i", "r">>}

\* tokens with both markers and no underscore between them, with a kind
\* that is not one of the three, with two references
OddTokens ==
    {<<"M", "=", "@", "r", "e", "f", ":", "a", "@">>, <<"@", "r", "e", "f", ":", "@">>, <<"@", "r", "e", "f", ":", "a", "_", "l", "i", "b", "_", "d", "i", "r", "@">>, <<"@", "r", "e", "f", ":", "a", "_", "i", "n", "s", "t", "a", "l", "l", "_", "d", "i", "r", "@", ":", "@", "r", "e", "f", ":", "a", "_", "b", "u", "i", "l", "d", "_", "d", "i", "r", "@">>}

Tokens == WellFormedTokens \cup BrokenTokens \cup OddTokens

\* the resolution maps after a stack with the given component names and
\* unpacked directories was installed under /i/s
MapsOf(names) ==
    [inst |-> [n \in names |-> <<"/", "i", "/", "s", "/", "i", "n", "s", "t", "a", "l", "l", "/">> \o n],
     built |-> [n \in names |-> <<"/", "i", "/", "s", "/", "b", "u", "i", "l", "d", "/">> \o n \o <<"/", "t">>],
     src |-> [n \in names |-> <<"/", "i", "/", "s", "/", "s", "r", "c">>]]

RefMaps == {MapsOf({}), MapsOf({<<"a">>}), MapsOf({<<"a">>, <<"c", "_", "d">>}), MapsOf({<<"a">>, <<"c">>, <<"c", "_", "d">>})}

InitRefs ==
    /\ \E m \in RefMaps :
          /\ InstalledComponents = m.inst
          /\ BuiltComponents = m.built
          /\ SrcComponents = m.src
    /\ StackDefinition = [Name |-> StackName, Type |-> <<"p", "u", "b", "l", "i", "c">>, Components |-> <<>>]
    /\ Private = FALSE
    /\ BuildEnv = <<>>
    /\ StackInstallDir = ConfigInstallDir
    /\ fs = LocalFS
    /\ pc = "pick"
    /\ run = 0
    /\ idx = 0
    /\ installedComponents = EmptyMap
    /\ configIds = EmptyMap
    /\ b = NewBuilder
    /\ err = NoErr
    /\ log = <<>>
    /\ faults = 0
    /\ token = <<>>
    /\ refRes = [err |-> NoErr, panic |-> FALSE, out |-> <<>>]

\* the caller chooses the token of its next call
PickToken ==
    /\ pc \in {"pick", "called"}
    /\ token' \in Tokens
    /\ pc' = "ready"
    /\ UNCHANGED <<Config, BuildEnv, Maps, fs, run, idx, Locals, b, err, log, faults, refRes>>

\* c.UpdateRefs(token)
CallUpdateRefs ==
    /\ pc = "ready"
    /\ refRes' = UpdateRefs(token)
    /\ pc' = IF refRes'.panic THEN "panic" ELSE "called"
    /\ UNCHANGED <<Config, BuildEnv, Maps, fs, run, idx, Locals, b, err, log, faults, token>>

NextRefs ==
    \/ PickToken
    \/ CallUpdateRefs

SpecRefs == InitRefs /\ [][NextRefs]_vars

\* the recorded path of the given kind for the component called name
RecordedPath(name, kind) ==
    IF kind = KInstallDir THEN InstalledComponents[name]
    ELSE IF kind = KBuildDir THEN BuiltComponents[name]
    ELSE SrcComponents[name]

\* C6: UpdateRefs on a token pre @ref:<name>_<kind>@ post with kind one of
\* install_dir, build_dir, src_dir: if <name> is a key of the resolution
\* map, the result is pre, the recorded path of that kind for <name>, post;
\* if it is not, the result is the token unchanged; no error either way.
C6_ReplacesSpan ==
    pc \in {"called", "panic"} =>
        \A p \in RefPres, n \in RefNames, k \in Kinds, q \in RefPosts :
            token = RefToken(p, n, k, q) =>
                /\ ~refRes.panic
                /\ refRes.err = NoErr
                /\ refRes.out = IF n \in DOMAIN InstalledComponents
                                THEN p \o RecordedPath(n, k) \o q
                                ELSE token

\* the token has no start marker, or no end marker after the start marker
LacksMarker(t) ==
    \/ ~Contains(t, RefStartDelimiter)
    \/ ~Contains(SliceFrom(t, Index(t, RefStartDelimiter) + Len(RefStartDelimiter)),
                 RefEndDelimiter)

\* the elements of the current component's build_env
CustomEnv ==
    IF softwareComponent.BuildEnv = <<>> THEN <<>>
    ELSE Split(softwareComponent.BuildEnv, <<" ">>)

\* InstallStack is about to resolve the current component's environment,
\* and the first element UpdateRefs does not resolve lacks a marker
MeetsBrokenEntry ==
    /\ pc = "prepare"
    /\ \E i \in 1..Len(CustomEnv) :
          /\ Contains(CustomEnv[i], RefEndDelimiter)
          /\ LacksMarker(CustomEnv[i])
          /\ \A j \in 1..(i - 1) :
                Contains(CustomEnv[j], RefEndDelimiter) =>
                    ~LacksMarker(CustomEnv[j]) /\ ~UpdateRefs(CustomEnv[j]).panic

\* the steps of the current call for the component at position k
StepsOf(k) == {i \in 1..Len(log) : CompPos(log[i].comp) = k}

\* C7: UpdateRefs returns an error for every token that lacks the start
\* marker or lacks an end marker after it; and when InstallStack meets such
\* an element in a component's build_env it returns an error before it
\* acquires, configures or builds that component.
C7_MalformedReference ==
    /\ [](\A t \in Tokens : LacksMarker(t) => UpdateRefs(t).err # NoErr /\ ~UpdateRefs(t).panic)
    /\ [][MeetsBrokenEntry =>
            /\ pc' = "idle"
            /\ err' # NoErr
            /\ refRes'.err # NoErr
            /\ LacksMarker(token')
            /\ \A i \in StepsOf(idx)' : log'[i].step = "begin"
            /\ ~PathExists(fs', Join(Join(stackBasedir, DBuild), softwareComponent.Name))
            /\ softwareComponent.Name \notin DOMAIN InstalledComponents']_vars

\* InstallStack returned the error of UpdateRefs on an element without end
\* marker, met in the build_env of its first component
C7_Witness ==
    /\ pc = "idle"
    /\ run = 1
    /\ idx = 1
    /\ err = "updateTestRefs() failed"
    /\ refRes.err = "unable to find end delimiter"
    /\ Contains(token, RefStartDelimiter)
    /\ LacksMarker(token)
    /\ \A i \in 1..Len(log) : log[i].step = "begin"

(***************************************************************************)
(* Info.Get called directly, several times on the same environment         *)
(***************************************************************************)

\* how many times the caller calls Get
MaxGets == 3

\* the caller's environment: a source URL, an application name, and a
\* SrcPath that is unset or the source directory of the stack
InitGet ==
    /\ \E u \in {UDir, UTar, UTarTwo, UMk, UGit, UGitAuto, UHttp, UBad}, n \in {<<"a">>, <<"c", "_", "d">>}, sp \in {<<>>, <<"/", "i", "/", "s", "/", "s", "r", "c">>} :
          b = [NewBuilder EXCEPT !.BuildDir = <<"/", "i", "/", "s", "/", "b", "u", "i", "l", "d">>, !.SrcPath = sp,
                                 !.Name = n, !.URL = u]
    /\ fs = MkdirAll(LocalFS, <<"/", "i", "/", "s", "/", "b", "u", "i", "l", "d">>)
    /\ StackDefinition = [Name |-> StackName, Type |-> <<"p", "u", "b", "l", "i", "c">>, Components |-> <<>>]
    /\ Private = FALSE
    /\ BuildEnv = <<>>
    /\ StackInstallDir = ConfigInstallDir
    /\ InstalledComponents = EmptyMap
    /\ BuiltComponents = EmptyMap
    /\ SrcComponents = EmptyMap
    /\ pc = "caller"
    /\ run = 0
    /\ idx = 0
    /\ installedComponents = EmptyMap
    /\ configIds = EmptyMap
    /\ err = NoErr
    /\ log = <<>>
    /\ faults = 0
    /\ token = <<>>
    /\ refRes = [err |-> NoErr, panic |-> FALSE, out |-> <<>>]

\* env.Get(&app); log keeps the commands of this call only
GetCall ==
    /\ pc = "caller"
    /\ run < MaxGets
    /\ run' = run + 1
    /\ \E ok \in BOOLEAN :
          LET m0 == [b |-> b, fs |-> fs, log |-> <<>>, err |-> NoErr]
              m1 == Get(m0, ok)
          IN  /\ Outcome(ok, m1, Get(m0, TRUE))
              /\ b' = m1.b
              /\ fs' = m1.fs
              /\ log' = m1.log
              /\ err' = m1.err
    /\ UNCHANGED <<Config, BuildEnv, Maps, pc, idx, Locals, Direct>>

NextGet == GetCall

SpecGet == InitGet /\ [][NextGet]_vars

\* Get is called again after a call that succeeded, so that its target
\* exists in the build directory, and no command of the new call fails
RepeatsGet ==
    /\ pc = "caller"
    /\ run >= 1
    /\ run' = run + 1
    /\ err = NoErr
    /\ PathExists(fs, b.SrcPath)
    /\ faults' = faults

\* the kind of source the URL of the builder designates
SourceIsDirectory ==
    HasPrefix(b.URL, FilePrefix) /\ IsDir(fs, SliceFrom(b.URL, Len(FilePrefix)))

SourceIsGit == HasSuffix(b.URL, GitSuffix) \/ HasPrefix(b.URL, GitSshPrefix)

FirstGet ==
    /\ pc = "caller"
    /\ run = 0
    /\ run' = 1
    /\ b.SrcPath = <<>>
    /\ b.SrcDir = <<>>
    /\ faults' = faults

\* the path a file:// URL names
UrlPath == SliceFrom(b.URL, Len(FilePrefix))

\* C11: a Get with only BuildDir, the name and the URL set, whose command
\* succeeds, is successful for a file:// URL naming a regular file, for an
\* http(s) URL and for a file:// URL naming a directory; after it, in the
\* first two cases SrcDir is <BuildDir>/<Name>, SrcPath is
\* <BuildDir>/<Name>/<basename of the URL> and that file exists; in the
\* third SrcDir and SrcPath are <BuildDir>/<Name>/<basename of the directory>.
C11_GetPaths ==
    [][FirstGet =>
         /\ (DetectURLType(b.URL) = "http"
               \/ (DetectURLType(b.URL) = "file" /\ FileExists(fs, UrlPath))) =>
               /\ err' = NoErr
               /\ b'.SrcDir = Join(b.BuildDir, b.Name)
               /\ b'.SrcPath = Join(Join(b.BuildDir, b.Name), Base(b.URL))
               /\ FileExists(fs', b'.SrcPath)
         /\ (DetectURLType(b.URL) = "file" /\ IsDir(fs, UrlPath)) =>
               /\ err' = NoErr
               /\ b'.SrcDir = Join(Join(b.BuildDir, b.Name), Base(UrlPath))
               /\ b'.SrcPath = b'.SrcDir]_vars

(***************************************************************************)
(* Properties of the acquisition of a git source in InstallStack           *)
(***************************************************************************)

\* <BuildDir>/<Name>/<repoBaseName> for the builder's URL
CheckoutPath ==
    Join(Join(b.BuildDir, b.Name), ReplaceFirst(Base(b.URL), <<".", "g", "i", "t">>, <<>>))

\* the step about to be taken acquires a git source
GitGet == pc = "get" /\ DetectURLType(b.URL) = "git"

\* the declared branch of the component called name
BranchOf(name) == Components[CompPos(name)].Branch

\* the declared branch checkout prelude of the component called name
BranchPreludeOf(name) == Components[CompPos(name)].BranchCheckoutPrelude

\* C12: for a git URL, acquisition clones into
\* <BuildDir>/<Name>/<repoBaseName> when that directory does not exist and
\* runs pull in it when it does; and when the component declares a branch,
\* the branch checkout prelude (if declared) has run and then the branch was
\* checked out before any configure or compile step of the component.
C12_GitAcquisition ==
    /\ [][GitGet =>
            LET ev == log'[Len(log')]
            IN  /\ ev.bin = <<"g", "i", "t">>
                /\ IF PathExists(fs, CheckoutPath)
                   THEN ev.args = <<<<"p", "u", "l", "l">>>> /\ ev.dir = CheckoutPath
                   ELSE /\ ev.args = <<<<"c", "l", "o", "n", "e">>, b.URL>>
                        /\ ev.dir = Join(b.BuildDir, b.Name)
                        /\ ev.ok => IsDir(fs', CheckoutPath)]_vars
    /\ [](\A i \in 1..Len(log) :
            (log[i].step \in {"configure", "compile"} /\ BranchOf(log[i].comp) # <<>>) =>
                \E j \in 1..(i - 1) :
                    /\ log[j].comp = log[i].comp
                    /\ log[j].bin = <<"g", "i", "t">>
                    /\ log[j].args = <<<<"c", "h", "e", "c", "k", "o", "u", "t">>, BranchOf(log[i].comp)>>
                    /\ BranchPreludeOf(log[i].comp) # <<>> =>
                          \E k \in 1..(j - 1) :
                              /\ log[k].comp = log[i].comp
                              /\ <<log[k].bin>> \o log[k].args
                                    = Split(BranchPreludeOf(log[i].comp), <<" ">>))

(***************************************************************************)
(* Properties of Info.Unpack, as Builder.Install calls it                  *)
(***************************************************************************)

\* the artifact Unpack works on: <SrcDir>/<Tarball>
SrcObject == Join(b.SrcDir, b.Tarball)

\* the step about to be taken is Unpack, on a recognized archive
UnpacksArchive == pc = "unpack" /\ DetectTarballFormat(SrcObject) # ""

\* the entries of the directory holding the archive, the archive excepted,
\* in the file system f
OtherEntries(f) == EntryNames(f, b.SrcDir) \ {Base(b.Tarball)}

\* the last entry of the record of what ran, after the step
LastRan == log'[Len(log')]

\* C13: Unpack on a recognized archive extracts it with tar in the directory
\* that holds it; if that directory then holds the archive and exactly one
\* other entry, SrcDir becomes that entry's path and no error is returned; if
\* it holds more than one other entry, Unpack returns an error and SrcDir is
\* unchanged.  If the artifact is not a recognized archive, Unpack returns
\* no error, runs nothing and changes nothing.
C13_UnpackOutcome ==
    [][/\ UnpacksArchive =>
            /\ LastRan.bin = <<"t", "a", "r">>
            /\ LastRan.dir = b.SrcDir
            /\ LastRan.args[2] = SrcObject
            /\ LastRan.ok =>
                  /\ Base(b.Tarball) \in EntryNames(fs', b.SrcDir)
                  /\ \A e \in OtherEntries(fs') :
                        OtherEntries(fs') = {e} =>
                            pc' = "configure" /\ err' = NoErr /\ b'.SrcDir = Join(b.SrcDir, e)
                  /\ Cardinality(OtherEntries(fs')) > 1 =>
                        pc' = "idle" /\ err' # NoErr /\ b'.SrcDir = b.SrcDir
       /\ (pc = "unpack" /\ ~UnpacksArchive) =>
            /\ pc' = "configure"
            /\ err' = NoErr
            /\ fs' = fs
            /\ LastRan.bin = <<>>
            /\ b'.SrcDir = b.SrcDir
            /\ b'.SrcPath = b.SrcPath
            /\ b'.Tarball = b.Tarball]_vars

\* Unpack extracted an archive with two top-level directories: InstallStack
\* returned its error and SrcDir is still the directory holding the archive
C13_Witness ==
    /\ pc = "idle"
    /\ err = "unable to install: failed to unpack"
    /\ log[Len(log)].bin = <<"t", "a", "r">>
    /\ log[Len(log)].ok
    /\ Cardinality(OtherEntries(fs)) = 2
    /\ b.SrcDir = Join(b.BuildDir, b.Name)

(***************************************************************************)
(* The environment of the processes run for a component                    *)
(***************************************************************************)

\* the positions of the commands the step being taken adds to the record
NewCommands == {i \in (Len(log) + 1)..Len(log') : log'[i].bin # <<>>}

\* the step being taken is the configure, compile or install phase of
\* Builder.Install
BuildPhase == pc \in {"configure", "compile", "installphase"}

\* C14: every external process the configure, compile and install phases
\* run for a component (configure prelude, autogen, configure, build
\* script, make, make install; the cp of a tree without install target
\* excepted) receives the component's Env
C14_EnvSupplied ==
    [][BuildPhase =>
          \A i \in NewCommands :
              log'[i].bin # <<"c", "p">> => log'[i].env = b.Env]_vars

(***************************************************************************)
(* The accumulated build environment Data.BuildEnv                         *)
(***************************************************************************)

\* the key of an environment entry
EnvKey(e) == Split(e, <<"=">>)[1]

\* the keys of the custom build environment the component named name
\* declares
CustomKeys(name) ==
    LET decl == Components[CompPos(name)].BuildEnv
    IN  IF decl = <<>> THEN {}
        ELSE {EnvKey(Split(decl, <<" ">>)[i]) : i \in 1..Len(Split(decl, <<" ">>))}

\* the entries of an environment
Entries(env) == {env[i] : i \in 1..Len(env)}

\* C15: InstallStack changes Data.BuildEnv only in the step that completes
\* a component, and only by replacing a PATH entry or appending one: every
\* entry that is not a PATH entry keeps its value and its position.  The
\* environment a command of a component receives holds, besides entries of
\* Data.BuildEnv and PATH entries, only entries with the keys that
\* component declares itself: the custom entries of another component are
\* never in it.
C15_BuildEnvStable ==
    /\ [][/\ BuildEnv' # BuildEnv => pc = "record"
          /\ Len(BuildEnv') \in {Len(BuildEnv), Len(BuildEnv) + 1}
          /\ \A i \in 1..Len(BuildEnv) :
                \/ BuildEnv'[i] = BuildEnv[i]
                \/ EnvKey(BuildEnv[i]) = PathKey /\ EnvKey(BuildEnv'[i]) = PathKey
          /\ Len(BuildEnv') > Len(BuildEnv) => EnvKey(BuildEnv'[Len(BuildEnv')]) = PathKey]_vars
    /\ [](\A i \in Commands :
            \A e \in Entries(log[i].env) :
                \/ EnvKey(e) \in CustomKeys(log[i].comp)
                \/ EnvKey(e) = PathKey
                \/ e \in Entries(BuildEnv))

\* component b was configured after c_d, which declares the entries K and J,
\* completed: its environment has the PATH entry with the bin directory of
\* c_d in front, the entry CC of Data.BuildEnv, and neither K nor J
C15_Witness ==
    \E i \in ConfigureRuns :
        /\ log[i].comp = <<"b">>
        /\ \E j \in 1..(i - 1) : log[j].comp = <<"c", "_", "d">> /\ log[j].step = "record"
        /\ \E j \in ConfigureRuns : log[j].comp = <<"c", "_", "d">> /\ <<"K">> \in {EnvKey(e) : e \in Entries(log[j].env)}
        /\ \E e \in Entries(log[i].env) :
              HasPrefix(e, PathAssign \o <<"/", "i", "/", "s", "/", "i", "n", "s", "t", "a", "l", "l", "/", "c", "_", "d", "/", "b", "i", "n", ":">>)
        /\ <<"C", "C", "=", "k">> \in Entries(log[i].env)
        /\ \A e \in Entries(log[i].env) : EnvKey(e) \notin {<<"K">>, <<"J">>}

(***************************************************************************)
(* Info.GetAppInstallDir called directly, as TestGetAppInstallDir does:    *)
(* an Info with its InstallDir and an app.Info with a name and a URL; the  *)
(* returned directory is kept in refRes.out                                *)
(***************************************************************************)

InitDirs ==
    /\ \E d \in {<<"/", "i">>, <<"/", "o", "n", "e", "/", "p">>},
          n \in {<<>>, <<"a">>, <<"c", "_", "d">>},
          u \in {<<>>, UDir, UTar, UMk, UHttp, UGit, UBad, <<"h", "t", "t", "p", "s", ":", "/", "/", "h", "/", "b", ".", "t", "a", "r", ".", "b", "z", "2">>,
                 <<"h", "t", "t", "p", "s", ":", "/", "/", "h", "/", "c", ".", "t", "a", "r", ".", "g", "z">>, <<"h", "t", "t", "p", ":", "/", "/", "h", "/", "d", ".", "t", "a", "r">>, <<"h", "t", "t", "p", "s", ":", "/", "/", "h", "/", "e", ".", "g", "i", "t">>,
                 <<"h", "t", "t", "p", "s", ":", "/", "/", "h", "/", "f", ".", "z", "i", "p">>, <<"g", "i", "t", "@", "h", ":", "g", "/", "k", ".", "g", "i", "t", "h", "u", "b", ".", "g", "i", "t">>} :
          b = [NewBuilder EXCEPT !.InstallDir = d, !.Name = n, !.URL = u]
    /\ fs = LocalFS
    /\ StackDefinition = [Name |-> StackName, Type |-> <<"p", "u", "b", "l", "i", "c">>, Components |-> <<>>]
    /\ Private = FALSE
    /\ BuildEnv = <<>>
    /\ StackInstallDir = ConfigInstallDir
    /\ InstalledComponents = EmptyMap
    /\ BuiltComponents = EmptyMap
    /\ SrcComponents = EmptyMap
    /\ pc = "caller"
    /\ run = 0
    /\ idx = 0
    /\ installedComponents = EmptyMap
    /\ configIds = EmptyMap
    /\ err = NoErr
    /\ log = <<>>
    /\ faults = 0
    /\ token = <<>>
    /\ refRes = [err |-> NoErr, panic |-> FALSE, out |-> <<>>]

\* result := env.GetAppInstallDir(&appInfo)
CallGetAppInstallDir ==
    /\ pc = "caller"
    /\ pc' = "called"
    /\ refRes' = [refRes EXCEPT !.out = GetAppInstallDir(b)]
    /\ UNCHANGED <<Config, BuildEnv, Maps, fs, run, idx, Locals, b, err, log, faults, token>>

NextDirs == CallGetAppInstallDir

SpecDirs == InitDirs /\ [][NextDirs]_vars

\* a file name without its archive extension
WithoutArchiveExtension(name) ==
    IF HasSuffix(name, <<".", "t", "a", "r", ".", "g", "z">>) THEN TrimSuffix(name, <<".", "t", "a", "r", ".", "g", "z">>)
    ELSE IF HasSuffix(name, <<".", "t", "a", "r", ".", "b", "z", "2">>) THEN TrimSuffix(name, <<".", "t", "a", "r", ".", "b", "z", "2">>)
    ELSE IF HasSuffix(name, <<".", "t", "g", "z">>) THEN TrimSuffix(name, <<".", "t", "g", "z">>)
    ELSE TrimSuffix(name, <<".", "t", "a", "r">>)

\* the basename of the URL of the application without its archive
\* extension, or without ".git" for a Git URL
UrlStem ==
    IF DetectURLType(b.URL) = "git" THEN ReplaceAll(Base(b.URL), <<".", "g", "i", "t">>, <<>>)
    ELSE WithoutArchiveExtension(Base(b.URL))

\* the application has a URL of a type util.DetectURLType recognizes
UrlRecognized == DetectURLType(b.URL) \in {"file", "http", "git"}

StackSrcDir == Join(stackBasedir, DSrc)

\* C17: after a successful InstallStack, for every component c,
\* SrcComponents[c.Name] is <installDir>/<stackName>/src/<d>, d being an
\* existing entry of the src directory of the stack whose name contains
\* c.Name; it is never the src directory itself.
C17_RecordedSrcPaths ==
    (pc = "idle" /\ err = NoErr /\ run >= 1) =>
        \A k \in 1..Len(Components) :
            LET n == Components[k].Name
            IN  /\ n \in DOMAIN SrcComponents
                /\ SrcComponents[n] # StackSrcDir
                /\ Dir(SrcComponents[n]) = StackSrcDir
                /\ Base(SrcComponents[n]) \in EntryNames(fs, StackSrcDir)
                /\ Contains(Base(SrcComponents[n]), n)

(***************************************************************************)
(* Config.Detect called directly on the Config of a source tree /s that    *)
(* may change between two calls; the record of what ran keeps the order of *)
(* the calls and of the changes                                            *)
(***************************************************************************)

MaxDetects == 2
MaxChanges == 1

\* a Makefile without install target: no line begins with "install:"
MkNoInstall == <<"a", "l", "l", ":", "\n", " ", "i", "n", "s", "t", "a", "l", "l", ":">>

InitDetect ==
    /\ \E scripts \in SUBSET {FAutogenSh, FAutogenPl, FConfigure},
          mk \in {<<>>, FMakefileU, FMakefileL},
          text \in {MkPlain, MkNoInstall} :
          fs = [p \in {<<"/", "s">>} \cup {Join(<<"/", "s">>, n) : n \in scripts \cup ({mk} \ {<<>>})} |->
                  IF p = <<"/", "s">> THEN DirEntry
                  ELSE IF Base(p) \in scripts THEN FileEntry(ScriptText)
                  ELSE FileEntry(text)]
    /\ b = [NewBuilder EXCEPT !.Source = <<"/", "s">>]
    /\ StackDefinition = [Name |-> StackName, Type |-> <<"p", "u", "b", "l", "i", "c">>, Components |-> <<>>]
    /\ Private = FALSE
    /\ BuildEnv = <<>>
    /\ StackInstallDir = ConfigInstallDir
    /\ InstalledComponents = EmptyMap
    /\ BuiltComponents = EmptyMap
    /\ SrcComponents = EmptyMap
    /\ pc = "caller"
    /\ run = 0
    /\ idx = 0
    /\ installedComponents = EmptyMap
    /\ configIds = EmptyMap
    /\ err = NoErr
    /\ log = <<>>
    /\ faults = 0
    /\ token = <<>>
    /\ refRes = [err |-> NoErr, panic |-> FALSE, out |-> <<>>]

\* cfg.Detect()
DetectCall ==
    /\ pc = "caller"
    /\ run < MaxDetects
    /\ run' = run + 1
    /\ b' = Detect(b, fs)
    /\ log' = Append(log, StepEvent(<<>>, "detect"))
    /\ UNCHANGED <<Config, BuildEnv, Maps, fs, pc, idx, Locals, err, faults, Direct>>

\* one file of the tree appears or disappears
TreeChange ==
    /\ pc = "caller"
    /\ idx < MaxChanges
    /\ idx' = idx + 1
    /\ \E n \in {FAutogenSh, FConfigure, FMakefileU} :
          LET p == Join(b.Source, n)
          IN  fs' = IF p \in DOMAIN fs
                    THEN [q \in (DOMAIN fs) \ {p} |-> fs[q]]
                    ELSE WriteFile(fs, p, IF n = FMakefileU THEN MkPlain ELSE ScriptText)
    /\ log' = Append(log, StepEvent(<<>>, "change"))
    /\ UNCHANGED <<Config, BuildEnv, Maps, pc, run, Locals, b, err, faults, Direct>>

NextDetect == DetectCall \/ TreeChange

SpecDetect == InitDetect /\ [][NextDetect]_vars

\* the step is a call of Detect on a Config that is not latched
Inspects == pc = "caller" /\ run' = run + 1 /\ ~b.DetectDone

\* the tree holds the file called n
TreeHas(n) == FileExists(fs, Join(b.Source, n))

\* the flags of the Config after the step
FlagsAre(autogenFlag, configureFlag, installFlag) ==
    /\ b'.HasAutogen = autogenFlag
    /\ b'.HasConfigure = configureFlag
    /\ b'.HasMakeInstall = installFlag

\* C18: Detect classifies the tree by the first match: autogen.sh or
\* autogen.pl: the three flags are true; else configure: hasConfigure and
\* hasMakeInstall are true, hasAutogen false; else a file named Makefile or
\* makefile: hasMakeInstall is true exactly when that file has a line
\* beginning with "install:"; else the three flags are false.
C18_DetectClassifies ==
    [][Inspects =>
          IF TreeHas(FAutogenSh) \/ TreeHas(FAutogenPl) THEN FlagsAre(TRUE, TRUE, TRUE)
          ELSE IF TreeHas(FConfigure) THEN FlagsAre(FALSE, TRUE, TRUE)
          ELSE IF TreeHas(FMakefileU)
          THEN b'.HasMakeInstall = MakefileHasTarget(fs, <<"i", "n", "s", "t", "a", "l", "l">>, Join(b.Source, FMakefileU))
          ELSE IF TreeHas(FMakefileL)
          THEN b'.HasMakeInstall = MakefileHasTarget(fs, <<"i", "n", "s", "t", "a", "l", "l">>, Join(b.Source, FMakefileL))
          ELSE FlagsAre(FALSE, FALSE, FALSE)]_vars

\* the step is a call of Detect
CallsDetect == pc = "caller" /\ run' = run + 1

\* the tree holds none of the files of a build mechanism
NoBuildMechanism ==
    \A n \in {FAutogenSh, FAutogenPl, FConfigure, FMakefileU, FMakefileL} : ~TreeHas(n)

SourceHas(n) == FileExists(fs, Join(b.SrcDir, n))

\* the positions of the commands the step adds after the configure prelude
ConfigureCommands == {i \in NewCommands : log'[i].step # "prelude"}

\* C20: in the configure phase, for a tree with an autogen script and no
\* configure script, autogen is executed before ./configure: it is the
\* first command after the prelude, and ./configure follows when it
\* succeeds; for a tree that already holds a configure script, autogen is
\* not executed.
C20_AutogenWhenNeeded ==
    [][(pc = "configure" /\ (\A i \in NewCommands : log'[i].step = "prelude" => log'[i].ok)) =>
          /\ ((SourceHas(FAutogenSh) \/ SourceHas(FAutogenPl)) /\ ~SourceHas(FConfigure)) =>
                /\ ConfigureCommands # {}
                /\ \A i \in ConfigureCommands :
                      /\ (\A j \in ConfigureCommands : i <= j) => log'[i].step = "autogen"
                      /\ (log'[i].step = "autogen" /\ log'[i].ok) =>
                            (i + 1 \in ConfigureCommands /\ log'[i + 1].step = "configure")
          /\ SourceHas(FConfigure) =>
                \A i \in ConfigureCommands : log'[i].step # "autogen"]_vars

(***************************************************************************)
(* The configure phase of a tree without configure script                  *)
(***************************************************************************)

\* C21: when detection reported that the source tree has no configure
\* script (HasConfigure false), the configure phase executes no external
\* command and returns no error, whatever the component declares, a
\* configure prelude included.
C21_ConfigureNoOp ==
    [][(pc = "configure" /\ ~b.HasConfigure) =>
          /\ NewCommands = {}
          /\ pc' = "compile"
          /\ err' = NoErr]_vars

(***************************************************************************)
(* The compile and install phases of Builder.Install on a builder whose    *)
(* source tree /b/n/t is in place and detected: a root Makefile in either  *)
(* spelling, a Makefile in builddir, a configure script, a build script    *)
(***************************************************************************)

InitBuild ==
    /\ \E root \in SUBSET {FMakefileU, FMakefileL},
          sub \in SUBSET {Join(FBuilddir, FMakefileU), FConfigure},
          text \in {MkPlain, MkNoInstall},
          script \in {<<>>, <<"/", "w", "/", "x", ".", "s", "h">>} :
          LET dirs == {<<"/", "i">>, <<"/", "b">>, <<"/", "b", "/", "n">>, <<"/", "b", "/", "n", "/", "t">>, <<"/", "w">>} \cup
                      (IF Join(FBuilddir, FMakefileU) \in sub
                       THEN {Join(<<"/", "b", "/", "n", "/", "t">>, FBuilddir)} ELSE {})
              files == {<<"/", "w", "/", "x", ".", "s", "h">>} \cup {Join(<<"/", "b", "/", "n", "/", "t">>, n) : n \in root \cup sub}
              tree == [p \in dirs \cup files |->
                          IF p \in dirs THEN DirEntry
                          ELSE IF Base(p) \in {FMakefileU, FMakefileL} THEN FileEntry(text)
                          ELSE FileEntry(ScriptText)]
          IN  /\ fs = tree
              /\ b = Detect([NewBuilder EXCEPT !.InstallDir = <<"/", "i">>, !.BuildDir = <<"/", "b">>,
                                               !.SrcDir = <<"/", "b", "/", "n", "/", "t">>, !.Source = <<"/", "b", "/", "n", "/", "t">>,
                                               !.Name = <<"n">>, !.URL = UTar,
                                               !.BuildScript = script], tree)
    /\ StackDefinition = [Name |-> StackName, Type |-> <<"p", "u", "b", "l", "i", "c">>, Components |-> <<>>]
    /\ Private = FALSE
    /\ BuildEnv = <<>>
    /\ StackInstallDir = ConfigInstallDir
    /\ InstalledComponents = EmptyMap
    /\ BuiltComponents = EmptyMap
    /\ SrcComponents = EmptyMap
    /\ pc = "compile"
    /\ run = 0
    /\ idx = 0
    /\ installedComponents = EmptyMap
    /\ configIds = EmptyMap
    /\ err = NoErr
    /\ log = <<>>
    /\ faults = 0
    /\ token = <<>>
    /\ refRes = [err |-> NoErr, panic |-> FALSE, out |-> <<>>]

NextBuild == CompileSource \/ InstallSource

SpecBuild == InitBuild /\ [][NextBuild]_vars

\* the commands of the record that ran make
MakeRuns == {i \in Commands : log[i].bin = <<"m", "a", "k", "e">>}

\* the source root, or its builddir, holds a Makefile findMakefile looks for
SomeMakefile ==
    \/ SourceHas(FMakefileU)
    \/ SourceHas(FMakefileL)
    \/ SourceHas(Join(FBuilddir, FMakefileU))

AppInstallDir == Join(b.InstallDir, b.Name)
AppBuildDir == Join(b.BuildDir, b.Name)

\* every path of the build directory of the component has its copy, under
\* the same relative path, in the install root
BuildDirCopied ==
    \A p \in DOMAIN fs :
        (p = AppBuildDir \/ HasPrefix(p, AppBuildDir \o <<"/">>)) =>
            LET q == b.InstallDir \o SliceFrom(p, Len(b.BuildDir))
            IN  q \in DOMAIN fs' /\ fs'[q] = fs[p]

\* C23: in the install phase, when HasMakeInstall is true, the install
\* directory <InstallDir>/<Name> exists when make install is invoked, and
\* make install runs in the directory and with the arguments the make of
\* the compile phase had (the same Makefile); when HasMakeInstall is false,
\* make is not invoked and <BuildDir>/<Name> is copied recursively into the
\* install root.
C23_InstallPhase ==
    [][pc = "installphase" =>
          /\ b.HasMakeInstall =>
                \A i \in NewCommands :
                    /\ log'[i].bin = <<"m", "a", "k", "e">>
                    /\ log'[i].args[Len(log'[i].args)] = <<"i", "n", "s", "t", "a", "l", "l">>
                    /\ IsDir(fs', AppInstallDir)
                    /\ \A j \in MakeRuns :
                          /\ log'[i].dir = log[j].dir
                          /\ log'[i].args = Append(log[j].args, <<"i", "n", "s", "t", "a", "l", "l">>)
          /\ ~b.HasMakeInstall =>
                /\ Cardinality(NewCommands) = 1
                /\ \A i \in NewCommands :
                      /\ log'[i].bin = <<"c", "p">>
                      /\ log'[i].args = <<<<"-", "r", "f">>, AppBuildDir, b.InstallDir>>
                      /\ log'[i].ok => BuildDirCopied]_vars

\* make install ran after make, in the same directory, for a component
\* whose install directory did not exist before the install phase
C23_Witness ==
    /\ pc = "record"
    /\ b.HasMakeInstall
    /\ Cardinality(MakeRuns) = 2
    /\ \E i \in MakeRuns : log[i].step = "install" /\ log[i].ok
    /\ IsDir(fs, AppInstallDir)

\* C24: when the Makefile is located at <source>/builddir/Makefile, make,
\* in the compile and in the install phase, is run so that its effective
\* working directory (the working directory of the process, then the
\* argument -C builddir) is <source>/builddir, the directory that holds
\* the located Makefile.
C24_MakeInBuilddir ==
    \A i \in MakeRuns :
        (\E k \in 1..Len(log[i].args) : log[i].args[k] = <<"-", "C">>) =>
            MakeWorkDir(log[i].dir, log[i].args) = Join(b.SrcDir, FBuilddir)

\* C25: findMakefile returns the Makefile of the source root (spelled
\* Makefile or makefile) whenever the root has one, with no extra make
\* arguments; it returns <source>/builddir/Makefile, with the extra
\* arguments -C builddir, only when the root has neither spelling.  Seen
\* on the make of the compile phase: its working directory is the
\* directory of the returned path, its arguments are -j and the extra
\* arguments.
C25_FindMakefile ==
    [][(pc = "compile" /\ b.BuildScript = <<>>) =>
          \A i \in NewCommands :
              IF SourceHas(FMakefileU) \/ SourceHas(FMakefileL)
              THEN log'[i].dir = b.SrcDir /\ log'[i].args = <<<<"-", "j">>>>
              ELSE /\ log'[i].dir = Join(b.SrcDir, FBuilddir)
                   /\ log'[i].args = <<<<"-", "j">>, <<"-", "C">>, FBuilddir>>]_vars

(***************************************************************************)
(* Repeated InstallStack invocations on the same install root              *)
(***************************************************************************)

\* the phase called step of component n completed without error in the
\* current invocation: it started and the phase after it started too
PhaseDone(n, step, after) ==
    \E i \in 1..Len(log) :
        /\ log[i].comp = n /\ log[i].step = step /\ log[i].bin = <<>>
        /\ \E j \in (i + 1)..Len(log) :
              log[j].comp = n /\ log[j].step = after /\ log[j].bin = <<>>

\* C26: a component name becomes a key of InstalledComponents only in an
\* invocation in which the configure, compile and install phases of that
\* component all completed without error: a component whose install phase
\* failed is not treated as installed by a later invocation that does not
\* rebuild it.  Stated for the components whose source was acquired under
\* this install root (their build directory exists).
C26_InstalledMeansBuilt ==
    [][\A n \in (DOMAIN InstalledComponents') \ (DOMAIN InstalledComponents) :
          PathExists(fs, Join(Join(stackBasedir, DBuild), n)) =>
          /\ PhaseDone(n, "configure", "compile")
          /\ PhaseDone(n, "compile", "install")
          /\ \E i \in Commands : log[i].comp = n /\ log[i].step = "install" /\ log[i].ok]_vars

\* C27: whenever InstallStack returns, with or without an error, the maps
\* InstalledComponents, BuiltComponents and SrcComponents have the same
\* keys.
C27_SameKeys ==
    (pc = "idle" /\ run >= 1) =>
        /\ DOMAIN InstalledComponents = DOMAIN BuiltComponents
        /\ DOMAIN BuiltComponents = DOMAIN SrcComponents

\* every component of the stack is a key of the three resolution maps
AllRecorded ==
    \A k \in 1..Len(Components) :
        /\ Components[k].Name \in DOMAIN InstalledComponents
        /\ Components[k].Name \in DOMAIN BuiltComponents
        /\ Components[k].Name \in DOMAIN SrcComponents

\* the step belongs to the second invocation of InstallStack, the first one
\* having recorded every component
Rerun == run = 2 /\ pc # "idle" /\ AllRecorded

\* C28: re-running InstallStack on the same Config and install root after a
\* fully successful run returns no error, executes no acquisition,
\* configure, make or install command for any component, and leaves the
\* three resolution maps as they were after the first run.
C28_RerunSkips ==
    [][Rerun =>
          /\ NewCommands = {}
          /\ pc' \notin {"get", "unpack", "configure", "compile", "installphase", "panic"}
          /\ pc' = "idle" => err' = NoErr
          /\ InstalledComponents' = InstalledComponents
          /\ BuiltComponents' = BuiltComponents
          /\ SrcComponents' = SrcComponents]_vars

\* the second invocation of InstallStack on a stack of three components
\* returned without error and ran no command
C28_Witness ==
    /\ run = 2
    /\ pc = "idle"
    /\ err = NoErr
    /\ AllRecorded
    /\ Len(Components) = 3
    /\ Commands = {}
    /\ Cardinality({i \in 1..Len(log) : log[i].step = "record"}) = 3

(***************************************************************************)
(* UpdateRefs on every token; references to recorded components            *)
(***************************************************************************)

\* the token has both markers and no underscore in the reference body
NoUnderscoreBody(t) ==
    /\ ~LacksMarker(t)
    /\ LET bodyStart == Index(t, RefStartDelimiter) + Len(RefStartDelimiter)
           rest == SliceFrom(t, bodyStart)
       IN  ~Contains(Slice(rest, 0, Index(rest, RefEndDelimiter)), <<"_">>)

\* C29: every call of UpdateRefs returns, with a string or an error; for
\* a token with both markers and no underscore in the reference body the
\* call returns an error or the token unchanged.
C29_AlwaysReturns ==
    [][pc = "ready" =>
          /\ ~refRes'.panic
          /\ pc' = "called"
          /\ NoUnderscoreBody(token) =>
                (refRes'.err # NoErr \/ refRes'.out = token)]_vars

\* C30: for every recorded component name n, names with an underscore
\* included, UpdateRefs on @ref:<n>_install_dir@ returns the install path
\* recorded for n, without error.
C30_RecordedNamesResolve ==
    \A n \in DOMAIN InstalledComponents :
        (pc \in {"called", "panic"} /\ token = RefToken(<<>>, n, KInstallDir, <<>>)) =>
            /\ ~refRes.panic
            /\ refRes.err = NoErr
            /\ refRes.out = InstalledComponents[n]

====
